---- MODULE Spec2Model ----
(***************************************************************************)
(* Model of the flox-debugger terminal UI: the key-binding resolver, the   *)
(* screen/tab machine, the exit-confirmation modal, the environment        *)
(* inspector and the event loop of src/app/mod.rs.                         *)
(***************************************************************************)
EXTENDS Integers, Sequences, FiniteSets, TLC

VARIABLES screen, exit_state, env, output, snapshot, pc, last_event, fresh,
          load_shell, load_input, pieces, callsites, frames, reads,
          trace, visible_lines, rendered, term

\* the variables of load_call_stack: its arguments, the pieces its input was
\* written from, the parser's result, the frames loaded so far and the
\* results of reading their files
load_vars == <<load_shell, load_input, pieces, callsites, frames, reads>>

\* the variables of the Trace screen: the TraceState, the height of the
\* source view at the last layout, and what the last draw put there
trace_vars == <<trace, visible_lines, rendered>>

vars == <<screen, exit_state, env, output, snapshot, pc, last_event, fresh,
          load_vars, trace_vars, term>>

(***************************************************************************)
(* Bounds of the model.                                                    *)
(***************************************************************************)
\* largest number of variables in the captured environment
MaxVars == 2
\* largest length (in characters) of a variable's value
MaxValLen == 1
\* largest number of pieces (lines, segments) a call-stack text is written from
MaxPieces == 4
\* largest height (in rows) of the source view of the Trace screen
MaxRows == 4

(***************************************************************************)
(* Option values: None is the empty tuple, Some(x) a one-element tuple.    *)
(***************************************************************************)
None == <<>>
Some(x) == <<x>>
IsSome(o) == Len(o) = 1
Unwrap(o) == o[1]

(***************************************************************************)
(* Screens (app/mod.rs, enum Screen).                                      *)
(***************************************************************************)
Screens == {"Home", "Prompt", "Vars", "Trace", "Output"}

tab_index(s) ==
    CASE s = "Home" -> 0
      [] s = "Prompt" -> 1
      [] s = "Vars" -> 2
      [] s = "Trace" -> 3
      [] s = "Output" -> 4

next_tab_skip(s) ==
    CASE s = "Home" -> "Prompt"
      [] s = "Prompt" -> "Vars"
      [] s = "Vars" -> "Output"
      [] s = "Trace" -> "Output"
      [] s = "Output" -> "Home"

\* Screen::next_tab
next_tab(s) ==
    CASE s = "Home" -> "Prompt"
      [] s = "Prompt" -> "Vars"
      [] s = "Vars" -> "Trace"
      [] s = "Trace" -> "Output"
      [] s = "Output" -> "Home"

(***************************************************************************)
(* Exit state (enum ExitState, enum ExitOption).                           *)
(***************************************************************************)
ExitOptions == {"Ok", "Cancel"}
NotExiting == [kind |-> "NotExiting"]
PresentModal(opt) == [kind |-> "PresentModal", highlighted_option |-> opt]
ExitStates == {NotExiting} \cup {PresentModal(o) : o \in ExitOptions}

\* #[default] of ExitOption
ExitOptionDefault == "Cancel"
\* #[default] of ExitState
ExitStateDefault == NotExiting

(***************************************************************************)
(* Events (enum Event, AppEvent, NavEvent, VarsEvent).                     *)
(***************************************************************************)
AppEv(e) == [type |-> "App", ev |-> e]
NavEv(e) == [type |-> "Nav", ev |-> e]
VarsEv(e) == [type |-> "Vars", ev |-> e]
AppEvents == {AppEv(e) : e \in {"NextTab", "ExitRequested"}}
NavEvents == {NavEv(e) : e \in {"Up", "Down", "Left", "Right", "Select"}}
VarsEvents == {VarsEv(e) : e \in {"RawDetail", "SplitDetail"}}
Events == AppEvents \cup NavEvents \cup VarsEvents

(***************************************************************************)
(* Key presses as delivered by the terminal (crossterm KeyEvent).  The     *)
(* key map is keyed on the whole KeyEvent: code, modifiers, kind, state.   *)
(***************************************************************************)
KeyEvent(code, modifiers) ==
    [code |-> code, modifiers |-> modifiers, kind |-> "Press", state |-> "NONE"]
KeyCodes == {"q", "Tab", "Left", "Right", "Up", "Down", "Enter", "r", "s", "Esc"}
Keys == {KeyEvent(c, "NONE") : c \in KeyCodes}
          \cup {KeyEvent("q", "CONTROL"), KeyEvent("Tab", "SHIFT")}

(***************************************************************************)
(* Key bindings (app/key_bindings.rs).                                     *)
(***************************************************************************)
\* impl Default for GlobalKeyBindings
GlobalKeyBindingsDefault ==
    [exit |-> KeyEvent("q", "NONE"), next_tab |-> KeyEvent("Tab", "NONE")]

VarsKeyBindingsRawOnQ ==
    [next_var |-> KeyEvent("Down", "NONE"),
     previous_var |-> KeyEvent("Up", "NONE"),
     focus_var_list |-> KeyEvent("Left", "NONE"),
     focus_var_detail |-> KeyEvent("Right", "NONE"),
     raw_detail |-> KeyEvent("q", "NONE"),
     split_detail |-> KeyEvent("s", "NONE")]

\* impl Default for VarsKeyBindings
VarsKeyBindingsDefault ==
    [next_var |-> KeyEvent("Down", "NONE"),
     previous_var |-> KeyEvent("Up", "NONE"),
     focus_var_list |-> KeyEvent("Left", "NONE"),
     focus_var_detail |-> KeyEvent("Right", "NONE"),
     raw_detail |-> KeyEvent("r", "NONE"),
     split_detail |-> KeyEvent("s", "NONE")]

\* impl Default for TraceKeyBindings
TraceKeyBindingsDefault ==
    [next_frame |-> KeyEvent("Down", "NONE"),
     previous_frame |-> KeyEvent("Up", "NONE")]

\* #[derive(Default)] of KeyBindings; home, prompt and output bind nothing
KeyBindingsDefault ==
    [global |-> GlobalKeyBindingsDefault,
     vars |-> VarsKeyBindingsDefault,
     trace |-> TraceKeyBindingsDefault]

(***************************************************************************)
(* A key map is a HashMap<KeyEvent, Event>: here a function on Keys whose  *)
(* value is None for a key that is not in the map.                         *)
(***************************************************************************)
EmptyKeymap == [k \in Keys |-> None]
\* HashMap::insert: a later insert of the same key replaces the earlier one
Insert(keymap, key, event) == [keymap EXCEPT ![key] = Some(event)]
\* HashMap::get
Get(keymap, key) == keymap[key]

ModalKeymapWithGlobals(kb) ==
    LET m1 == Insert(EmptyKeymap, KeyEvent("Left", "NONE"), NavEv("Left"))
        m2 == Insert(m1, KeyEvent("Right", "NONE"), NavEv("Right"))
        m3 == Insert(m2, KeyEvent("Enter", "NONE"), NavEv("Select"))
        m4 == Insert(m3, kb.global.exit, AppEv("ExitRequested"))
    IN  Insert(m4, kb.global.next_tab, AppEv("NextTab"))

\* current_keymap, the branch taken while the exit modal is presented
ModalKeymap(kb) ==
    LET m1 == Insert(EmptyKeymap, KeyEvent("Left", "NONE"), NavEv("Left"))
        m2 == Insert(m1, KeyEvent("Right", "NONE"), NavEv("Right"))
    IN  Insert(m2, KeyEvent("Enter", "NONE"), NavEv("Select"))

\* current_keymap, the global bindings inserted when no modal is shown
GlobalKeymap(kb) ==
    LET m1 == Insert(EmptyKeymap, kb.global.exit, AppEv("ExitRequested"))
    IN  Insert(m1, kb.global.next_tab, AppEv("NextTab"))

\* current_keymap, the screen-specific bindings laid over the global ones
ScreenKeymap(kb, scr, base) ==
    CASE scr = "Vars" ->
           LET m1 == Insert(base, kb.vars.next_var, NavEv("Down"))
               m2 == Insert(m1, kb.vars.previous_var, NavEv("Up"))
               m3 == Insert(m2, kb.vars.focus_var_list, NavEv("Left"))
               m4 == Insert(m3, kb.vars.focus_var_detail, NavEv("Right"))
               m5 == Insert(m4, kb.vars.raw_detail, VarsEv("RawDetail"))
           IN  Insert(m5, kb.vars.split_detail, VarsEv("SplitDetail"))
      [] scr = "Trace" ->
           LET m1 == Insert(base, kb.trace.next_frame, NavEv("Down"))
           IN  Insert(m1, kb.trace.previous_frame, NavEv("Up"))
      [] OTHER -> base

\* KeyBindings::current_keymap
current_keymap(kb, scr, es) ==
    IF es.kind = "PresentModal"
    THEN ModalKeymap(kb)
    ELSE ScreenKeymap(kb, scr, GlobalKeymap(kb))

\* the keys a key map binds
BoundKeys(keymap) == {k \in Keys : IsSome(keymap[k])}

(***************************************************************************)
(* The environment inspector (app/vars.rs).                                *)
(***************************************************************************)
\* variable names, ordered as strings are ordered
Names == 1..MaxVars
\* the characters of a value: an ordinary character and the path separator
Chars == {"a", ":"}
PATH_SEPARATOR == ":"
\* the values tried: the prefixes of :a:a:..., so that the empty value, a
\* value of one segment and values of several segments occur
Value(n) == [i \in 1..n |-> IF i % 2 = 1 THEN PATH_SEPARATOR ELSE "a"]
Values == {Value(n) : n \in 0..MaxValLen}

\* the process environment: a map from the names that are set to their values
\* (names are only compared, so the first n names stand for any n names);
\* the values of successive names run through Values from a chosen start, so
\* that different names have different values
Snapshots ==
    {[i \in 1..n |-> Value((i + r) % (MaxValLen + 1))] :
        n \in 0..MaxVars, r \in 0..MaxValLen}

RECURSIVE SortedSeq(_)
\* sort_by_key on the variable name
SortedSeq(S) ==
    IF S = {} THEN <<>>
    ELSE LET m == CHOOSE x \in S : \A y \in S : x <= y
         IN  <<m>> \o SortedSeq(S \ {m})

\* ListState::default, select_first, select_next, select_previous of the
\* list widget.  select_previous is only ever called with Some(idx), idx > 0
\* (the call sites test it), so its behaviour with nothing selected is not
\* exercised and is modelled as leaving the state alone.
ListStateDefault == [selected |-> None]
select_first(ls) == [ls EXCEPT !.selected = Some(0)]
select_next(ls) ==
    [ls EXCEPT !.selected = IF IsSome(ls.selected) THEN Some(Unwrap(ls.selected) + 1) ELSE Some(0)]
select_previous(ls) ==
    [ls EXCEPT !.selected =
        IF IsSome(ls.selected)
        THEN Some(IF Unwrap(ls.selected) > 0 THEN Unwrap(ls.selected) - 1 ELSE 0)
        ELSE None]

\* variant of initial_list_state without the test for the empty list
initial_list_state_select_first(list_items) == select_first(ListStateDefault)

\* initial_list_state
initial_list_state(list_items) ==
    IF Len(list_items) = 0 THEN ListStateDefault ELSE select_first(ListStateDefault)

Raw == [kind |-> "Raw"]
Split(items, list_state) == [kind |-> "Split", items |-> items, list_state |-> list_state]

\* variant of init_split that leaves the cursor of the items unset
init_split_unselected(items) == Split(items, ListStateDefault)

\* VarDetailState::init_split
init_split(items) == Split(items, initial_list_state(items))

\* Env::new
Env_new(snap) ==
    LET names == SortedSeq(DOMAIN snap)
    IN  [vars |-> names,
         values |-> [i \in 1..Len(names) |-> snap[names[i]]],
         var_list_focused |-> TRUE,
         detail_state |-> Raw,
         var_list_state |-> initial_list_state(names)]

\* the orders in which a HashMap holding snap may hand out its entries:
\* every entry once, in an order the map chooses
HashMapOrders(snap) ==
    {order \in [1..Cardinality(DOMAIN snap) -> DOMAIN snap] :
        \A i, j \in DOMAIN order : order[i] = order[j] => i = j}

\* variant of Env::with_env that takes the values from a second pass over
\* the names in ascending order
Env_with_env_values_by_name(snap, order) ==
    [vars |-> order,
     values |-> [i \in 1..Len(order) |-> snap[SortedSeq(DOMAIN snap)[i]]],
     var_list_focused |-> TRUE,
     detail_state |-> Raw,
     var_list_state |-> initial_list_state(order)]

\* Env::with_env: the entries in the order the map's iterator gives them,
\* not sorted
Env_with_env(snap, order) ==
    [vars |-> order,
     values |-> [i \in 1..Len(order) |-> snap[order[i]]],
     var_list_focused |-> TRUE,
     detail_state |-> Raw,
     var_list_state |-> initial_list_state(order)]

RECURSIVE split_paths(_)
\* std::env::split_paths: the pieces between separators, empty pieces kept
split_paths(s) ==
    IF \A i \in 1..Len(s) : s[i] # PATH_SEPARATOR
    THEN <<s>>
    ELSE LET i == CHOOSE j \in 1..Len(s) :
                    s[j] = PATH_SEPARATOR /\ \A k \in 1..(j - 1) : s[k] # PATH_SEPARATOR
         IN  <<SubSeq(s, 1, i - 1)>> \o split_paths(SubSeq(s, i + 1, Len(s)))

\* Env::selected_var (sequences are 1-based, cursors 0-based)
selected_var(e) ==
    IF IsSome(e.var_list_state.selected)
    THEN Some(e.vars[Unwrap(e.var_list_state.selected) + 1])
    ELSE None

\* Env::selected_var_value
selected_var_value(e) ==
    IF IsSome(e.var_list_state.selected)
    THEN Some(e.values[Unwrap(e.var_list_state.selected) + 1])
    ELSE None

\* Env::selected_var_split_value
selected_var_split_value(e) ==
    IF IsSome(e.var_list_state.selected)
    THEN Some(split_paths(e.values[Unwrap(e.var_list_state.selected) + 1]))
    ELSE None

\* VarDetailState::selected_split_item
selected_split_item(detail_state) ==
    IF detail_state.kind = "Raw"
    THEN None
    ELSE IF IsSome(detail_state.list_state.selected)
         THEN Some(detail_state.items[Unwrap(detail_state.list_state.selected) + 1])
         ELSE None

\* Env::selected_detail_item
selected_detail_item(e) == selected_split_item(e.detail_state)

\* the result of a handler: the application state it leaves, whether the
\* loop should exit, and whether the handler panicked
Outcome(app, should_exit, panicked) ==
    [app |-> app, should_exit |-> should_exit, panicked |-> panicked]

\* variant of VarsNavUp that splits the value of the newly selected variable
\* anew when the detail mode is Split
VarsNavUpResplit(e) ==
    IF e.var_list_focused
    THEN IF IsSome(e.var_list_state.selected) /\ Unwrap(e.var_list_state.selected) > 0
         THEN LET moved == [e EXCEPT !.var_list_state = select_previous(e.var_list_state)]
              IN  IF e.detail_state.kind = "Split"
                  THEN [moved EXCEPT !.detail_state =
                          init_split(Unwrap(selected_var_split_value(moved)))]
                  ELSE moved
         ELSE e
    ELSE e

\* handle_vars_event, NavEvent::Up
VarsNavUp(e) ==
    IF e.var_list_focused
    THEN IF IsSome(e.var_list_state.selected) /\ Unwrap(e.var_list_state.selected) > 0
         THEN [e EXCEPT !.var_list_state = select_previous(e.var_list_state)]
         ELSE e
    ELSE IF e.detail_state.kind = "Split"
         THEN LET ls == e.detail_state.list_state
              IN  IF IsSome(ls.selected) /\ Unwrap(ls.selected) > 0
                  THEN [e EXCEPT !.detail_state.list_state = select_previous(ls)]
                  ELSE e
         ELSE e

\* variant of NavEvent::Down that wraps from the last item to the first
VarsNavDownWrap(e) ==
    IF e.var_list_focused
    THEN IF IsSome(e.var_list_state.selected)
         THEN IF Unwrap(e.var_list_state.selected) < Len(e.vars) - 1
              THEN [e EXCEPT !.var_list_state = select_next(e.var_list_state)]
              ELSE [e EXCEPT !.var_list_state = select_first(e.var_list_state)]
         ELSE e
    ELSE IF e.detail_state.kind = "Split"
         THEN LET ls == e.detail_state.list_state
              IN  IF IsSome(ls.selected)
                  THEN IF Unwrap(ls.selected) < Len(e.detail_state.items) - 1
                       THEN [e EXCEPT !.detail_state.list_state = select_next(ls)]
                       ELSE [e EXCEPT !.detail_state.list_state = select_first(ls)]
                  ELSE e
         ELSE e

\* handle_vars_event, NavEvent::Down
VarsNavDown(e) ==
    IF e.var_list_focused
    THEN IF IsSome(e.var_list_state.selected)
            /\ Unwrap(e.var_list_state.selected) < Len(e.vars) - 1
         THEN [e EXCEPT !.var_list_state = select_next(e.var_list_state)]
         ELSE e
    ELSE IF e.detail_state.kind = "Split"
         THEN LET ls == e.detail_state.list_state
              IN  IF IsSome(ls.selected)
                     /\ Unwrap(ls.selected) < Len(e.detail_state.items) - 1
                  THEN [e EXCEPT !.detail_state.list_state = select_next(ls)]
                  ELSE e
         ELSE e

\* variant of NavEvent::Left that switches the focus to the other pane
VarsNavLeftToggle(e) == [e EXCEPT !.var_list_focused = ~e.var_list_focused]

\* handle_vars_event, NavEvent::Left
VarsNavLeft(e) == [e EXCEPT !.var_list_focused = TRUE]

\* handle_vars_event, NavEvent::Right
VarsNavRight(e) == [e EXCEPT !.var_list_focused = FALSE]

\* variant of VarsEvent::RawDetail that switches the mode and keeps the
\* items and the cursor of the split view for the next SplitDetail
VarsRawDetailKeepsSplit(e) ==
    IF e.detail_state.kind = "Split"
    THEN [e EXCEPT !.detail_state.kind = "Raw"]
    ELSE e

\* handle_vars_event, VarsEvent::RawDetail
VarsRawDetail(e) == [e EXCEPT !.detail_state = Raw]

\* handle_vars_event
handle_vars_event(app, event) ==
    LET e == app.env
    IN  CASE event = NavEv("Up") ->
               Outcome([app EXCEPT !.env = VarsNavUp(e)], FALSE, FALSE)
          [] event = NavEv("Down") ->
               Outcome([app EXCEPT !.env = VarsNavDown(e)], FALSE, FALSE)
          [] event = NavEv("Left") ->
               Outcome([app EXCEPT !.env = VarsNavLeft(e)], FALSE, FALSE)
          [] event = NavEv("Right") ->
               Outcome([app EXCEPT !.env = VarsNavRight(e)], FALSE, FALSE)
          [] event = VarsEv("RawDetail") ->
               Outcome([app EXCEPT !.env = VarsRawDetail(e)], FALSE, FALSE)
          [] event = VarsEv("SplitDetail") ->
               \* selected_var_split_value().unwrap() panics when nothing is selected
               IF IsSome(selected_var_split_value(e))
               THEN Outcome([app EXCEPT !.env.detail_state =
                                init_split(Unwrap(selected_var_split_value(e)))],
                            FALSE, FALSE)
               ELSE Outcome(app, FALSE, TRUE)
          [] OTHER -> Outcome(app, FALSE, FALSE)

(***************************************************************************)
(* The application state and its event handlers (app/mod.rs).              *)
(***************************************************************************)
\* App::is_displaying_exit_modal
is_displaying_exit_modal(app) == app.exit_state.kind = "PresentModal"

\* App::set_exit_state
set_exit_state(app, st) == [app EXCEPT !.exit_state = st]

\* variant of App::next_tab that puts the Vars screen back to its initial
\* view (name list focused, Raw detail) when the screen changes
App_next_tab_resets_view(app) ==
    [app EXCEPT !.screen = next_tab(app.screen),
                !.env.var_list_focused = TRUE,
                !.env.detail_state = Raw]

\* App::next_tab
App_next_tab(app) == [app EXCEPT !.screen = next_tab(app.screen)]

ToggleOptionOneWay(opt) == "Ok"

\* the toggle of the highlighted option in handle_exit_state
ToggleOption(opt) == IF opt = "Ok" THEN "Cancel" ELSE "Ok"

\* variant of the Select arm that closes the modal for Ok as for Cancel and
\* never asks for the exit
modal_select_closes(app, highlighted_option) ==
    Outcome(set_exit_state(app, NotExiting), FALSE, FALSE)

modal_select_no_reset(app, highlighted_option) ==
    IF highlighted_option = "Ok"
    THEN Outcome(app, TRUE, FALSE)
    ELSE Outcome(set_exit_state(app, NotExiting), FALSE, FALSE)

\* handle_exit_state, NavEvent::Select
modal_select(app, highlighted_option) ==
    IF highlighted_option = "Ok"
    THEN Outcome(set_exit_state(app, NotExiting), TRUE, FALSE)
    ELSE Outcome(set_exit_state(app, NotExiting), FALSE, FALSE)

handle_exit_state_up_down_toggle(app, event) ==
    IF app.exit_state.kind = "PresentModal"
    THEN LET highlighted_option == app.exit_state.highlighted_option
         IN  IF event.type = "Nav"
             THEN CASE event.ev \in {"Left", "Right", "Up", "Down"} ->
                         Outcome([app EXCEPT !.exit_state.highlighted_option =
                                      ToggleOption(highlighted_option)],
                                 FALSE, FALSE)
                    [] event.ev = "Select" -> modal_select(app, highlighted_option)
             ELSE Outcome(app, FALSE, FALSE)
    ELSE Outcome(app, FALSE, FALSE)

\* handle_exit_state
handle_exit_state(app, event) ==
    IF app.exit_state.kind = "PresentModal"
    THEN LET highlighted_option == app.exit_state.highlighted_option
         IN  IF event.type = "Nav"
             THEN CASE event.ev \in {"Left", "Right"} ->
                         Outcome([app EXCEPT !.exit_state.highlighted_option =
                                      ToggleOption(highlighted_option)],
                                 FALSE, FALSE)
                    [] event.ev \in {"Up", "Down"} -> Outcome(app, FALSE, FALSE)
                    [] event.ev = "Select" -> modal_select(app, highlighted_option)
             ELSE Outcome(app, FALSE, FALSE)
    ELSE Outcome(app, FALSE, FALSE)

exit_requested_highlights_ok(app) == set_exit_state(app, PresentModal("Ok"))

\* handle_event, AppEvent::ExitRequested
exit_requested(app) == set_exit_state(app, PresentModal("Cancel"))

handle_event_modal_last(app, event) ==
    IF event.type = "App"
    THEN CASE event.ev = "ExitRequested" -> Outcome(exit_requested(app), FALSE, FALSE)
           [] event.ev = "NextTab" -> Outcome(App_next_tab(app), FALSE, FALSE)
    ELSE IF is_displaying_exit_modal(app)
         THEN handle_exit_state(app, event)
         ELSE CASE app.screen = "Vars" -> handle_vars_event(app, event)
                [] OTHER -> Outcome(app, FALSE, FALSE)

\* handle_event
handle_event(app, event) ==
    IF is_displaying_exit_modal(app)
    THEN handle_exit_state(app, event)
    ELSE IF event.type = "App"
         THEN CASE event.ev = "ExitRequested" -> Outcome(exit_requested(app), FALSE, FALSE)
                [] event.ev = "NextTab" -> Outcome(App_next_tab(app), FALSE, FALSE)
         ELSE CASE app.screen = "Vars" -> handle_vars_event(app, event)
                [] OTHER -> Outcome(app, FALSE, FALSE)

\* the App value held by the variables
App == [env |-> env, screen |-> screen, exit_state |-> exit_state, output |-> output]

\* enum Shell
Shells == {"Bash", "Zsh", "Fish"}
\* the values of the tracepoint marker variable: unset or empty, "all", or
\* the name of a tracepoint
TracepointValues == {"", "all", "other"}

\* variant of initial_output_inner that phrases the command for every shell
\* in the manner of Bash
initial_output_inner_posix(shell, tracepoint_var_value) ==
    IF tracepoint_var_value \in {"all", ""}
    THEN ""
    ELSE "unset FLOX_DBG_TRACEPOINT\n"

\* App::initial_output_inner
initial_output_inner(shell, tracepoint_var_value) ==
    IF tracepoint_var_value \in {"all", ""}
    THEN ""
    ELSE CASE shell = "Bash" -> "unset FLOX_DBG_TRACEPOINT\n"
           [] shell = "Zsh" -> "unset FLOX_DBG_TRACEPOINT\n"
           [] shell = "Fish" -> "set -e FLOX_DBG_TRACEPOINT\n"

\* the tracepoint marker variable in the process environment: unset, or set
\* to one of the values
TracepointMarkers == {None} \cup {Some(v) : v \in TracepointValues}

\* App::initial_output: std::env::var(..).unwrap_or_default() reads an unset
\* marker as the empty string
initial_output(shell, marker) ==
    initial_output_inner(shell, IF IsSome(marker) THEN marker[1] ELSE "")

(***************************************************************************)
(* The event loop (run_app).  pc is the position of the loop: "draw"       *)
(* before terminal.draw, "read" blocked in event::read, "done" after the   *)
(* break, "panic" after a panic unwound the loop.                          *)
(***************************************************************************)
\* load_call_stack is not running
LoadIdle ==
    /\ load_shell = None
    /\ load_input = None
    /\ pieces = <<>>
    /\ callsites = None
    /\ frames = <<>>
    /\ reads = <<>>

\* The terminal and what main gave to its caller: raw_mode and
\* alternate_screen are the modes of the terminal, cursor_shown says that
\* show_cursor restored the cursor, res is the value run_app returned to main
\* (None while it has not), stdout the text written to standard output (None
\* while nothing was), result the value main returned (None while it runs).
Terminal(raw_mode, alternate_screen) ==
    [raw_mode |-> raw_mode, alternate_screen |-> alternate_screen,
     cursor_shown |-> FALSE, res |-> None, stdout |-> None, result |-> None]

\* main is entered: the terminal is in its normal state
TermInitial == Terminal(FALSE, FALSE)

\* main set the terminal up and nothing was torn down, written or returned
TermUp == term = Terminal(TRUE, TRUE)

\* the Trace screen holds no state
TraceIdle ==
    /\ trace = None
    /\ visible_lines = 0
    /\ rendered = None

App_new_on_vars(snap, shell, tracepoint) ==
    [env |-> Env_new(snap), screen |-> "Vars", exit_state |-> ExitStateDefault,
     output |-> initial_output_inner(shell, tracepoint)]

\* App::new: Home screen, default exit state, Env read from the environment,
\* the output prepared from the shell and the tracepoint marker
App_new(snap, shell, tracepoint) ==
    [env |-> Env_new(snap), screen |-> "Home", exit_state |-> ExitStateDefault,
     output |-> initial_output_inner(shell, tracepoint)]

\* The state when run_app is entered.  snapshot is the process environment
\* the Env was read from, last_event the event the last key press resolved
\* to (None when it resolved to nothing), fresh records that no key press
\* was read yet.
Init ==
    /\ \E snap \in Snapshots, shell \in Shells, tracepoint \in TracepointValues :
          /\ snapshot = snap
          /\ env = App_new(snap, shell, tracepoint).env
          /\ screen = App_new(snap, shell, tracepoint).screen
          /\ exit_state = App_new(snap, shell, tracepoint).exit_state
          /\ output = App_new(snap, shell, tracepoint).output
    /\ pc = "draw"
    /\ last_event = None
    /\ fresh = TRUE
    /\ LoadIdle
    /\ TraceIdle
    /\ TermUp

\* terminal.draw(|frame| draw_ui(app, frame))
Draw ==
    /\ pc = "draw"
    /\ pc' = "read"
    /\ UNCHANGED <<screen, exit_state, env, output, snapshot, last_event, fresh>>
    /\ UNCHANGED <<load_vars, trace_vars, term>>

\* event::read returned something that is not a key press (mouse, resize)
ReadOther ==
    /\ pc = "read"
    /\ pc' = "draw"
    /\ UNCHANGED <<screen, exit_state, env, output, snapshot, last_event, fresh>>
    /\ UNCHANGED <<load_vars, trace_vars, term>>

\* the event the key press key resolves to in the current state, if any
Resolve(key) == Get(current_keymap(KeyBindingsDefault, screen, exit_state), key)

\* variant of KeyPress in the manner of an earlier run_app, which left the
\* loop on the Esc key without consulting the bindings
KeyPressEscBreaks(key) ==
    /\ pc = "read"
    /\ LET found == Resolve(key)
       IN  IF IsSome(found)
           THEN LET out == handle_event(App, Unwrap(found))
                IN  /\ last_event' = found
                    /\ env' = out.app.env
                    /\ screen' = out.app.screen
                    /\ exit_state' = out.app.exit_state
                    /\ output' = out.app.output
                    /\ pc' = IF out.panicked THEN "panic"
                             ELSE IF out.should_exit THEN "done" ELSE "draw"
           ELSE /\ last_event' = None
                /\ pc' = IF key.code = "Esc" THEN "done" ELSE "draw"
                /\ UNCHANGED <<screen, exit_state, env, output>>
    /\ fresh' = FALSE
    /\ snapshot' = snapshot
    /\ UNCHANGED <<load_vars, trace_vars, term>>

\* variant of KeyPress that goes back to event::read after handling the
\* event, without a draw in between
KeyPressNoRedraw(key) ==
    /\ pc = "read"
    /\ LET found == Resolve(key)
       IN  IF IsSome(found)
           THEN LET out == handle_event(App, Unwrap(found))
                IN  /\ last_event' = found
                    /\ env' = out.app.env
                    /\ screen' = out.app.screen
                    /\ exit_state' = out.app.exit_state
                    /\ output' = out.app.output
                    /\ pc' = IF out.panicked THEN "panic"
                             ELSE IF out.should_exit THEN "done" ELSE "read"
           ELSE /\ last_event' = None
                /\ pc' = "draw"
                /\ UNCHANGED <<screen, exit_state, env, output>>
    /\ fresh' = FALSE
    /\ snapshot' = snapshot
    /\ UNCHANGED <<load_vars, trace_vars, term>>

\* event::read returned the key press key: resolve it and handle the event
KeyPress(key) ==
    /\ pc = "read"
    /\ LET found == Resolve(key)
       IN  IF IsSome(found)
           THEN LET out == handle_event(App, Unwrap(found))
                IN  /\ last_event' = found
                    /\ env' = out.app.env
                    /\ screen' = out.app.screen
                    /\ exit_state' = out.app.exit_state
                    /\ output' = out.app.output
                    /\ pc' = IF out.panicked THEN "panic"
                             ELSE IF out.should_exit THEN "done" ELSE "draw"
           ELSE /\ last_event' = None
                /\ pc' = "draw"
                /\ UNCHANGED <<screen, exit_state, env, output>>
    /\ fresh' = FALSE
    /\ snapshot' = snapshot
    /\ UNCHANGED <<load_vars, trace_vars, term>>

Next ==
    \/ Draw
    \/ ReadOther
    \/ \E key \in Keys : KeyPress(key)

Spec == Init /\ [][Next]_vars

\* App::with_env
App_with_env(app, snap, order) == [app EXCEPT !.env = Env_with_env(snap, order)]

\* The state when run_app is entered with an App whose Env was built by
\* either constructor: Env::new, or Env::with_env from a map holding the
\* same variables.  The tracepoint marker is unset.
InitWithEnv ==
    /\ \E snap \in Snapshots, shell \in Shells :
          /\ snapshot = snap
          /\ \/ env = App_new(snap, shell, "").env
             \/ \E order \in HashMapOrders(snap) :
                   env = App_with_env(App_new(snap, shell, ""), snap, order).env
          /\ screen = App_new(snap, shell, "").screen
          /\ exit_state = App_new(snap, shell, "").exit_state
          /\ output = App_new(snap, shell, "").output
    /\ pc = "draw"
    /\ last_event = None
    /\ fresh = TRUE
    /\ LoadIdle
    /\ TraceIdle
    /\ TermUp

SpecWithEnv == InitWithEnv /\ [][Next]_vars

(***************************************************************************)
(* Text (app/trace.rs).  A text is the sequence of its characters.        *)
(***************************************************************************)
Min(a, b) == IF a < b THEN a ELSE b
Max(a, b) == IF a < b THEN b ELSE a

\* a Result: Ok(v) or Err(msg)
Ok(v) == [ok |-> TRUE, val |-> v]
Err(msg) == [ok |-> FALSE, err |-> msg]

\* the characters char::is_whitespace accepts, as far as the texts here go
Whitespace == {" ", "\t", "\n", "\r"}

RECURSIVE trim_start(_)
\* str::trim_start
trim_start(s) ==
    IF Len(s) > 0 /\ s[1] \in Whitespace THEN trim_start(Tail(s)) ELSE s

RECURSIVE trim_end(_)
\* str::trim_end
trim_end(s) ==
    IF Len(s) > 0 /\ s[Len(s)] \in Whitespace
    THEN trim_end(SubSeq(s, 1, Len(s) - 1))
    ELSE s

\* str::trim
trim(s) == trim_end(trim_start(s))

RECURSIVE str_split(_, _)
\* str::split on the character c: the pieces between the occurrences of c,
\* empty pieces kept; the empty text gives one empty piece
str_split(s, c) ==
    IF \A i \in 1..Len(s) : s[i] # c
    THEN <<s>>
    ELSE LET i == CHOOSE j \in 1..Len(s) :
                    s[j] = c /\ \A k \in 1..(j - 1) : s[k] # c
         IN  <<SubSeq(s, 1, i - 1)>> \o str_split(SubSeq(s, i + 1, Len(s)), c)

\* Iterator::nth over a collected split (indices from 0)
nth(parts_, n) == IF n < Len(parts_) THEN Some(parts_[n + 1]) ELSE None

Digits == {"0", "1", "2", "3", "4", "5", "6", "7", "8", "9"}

\* char::to_digit(10) of a decimal digit
DigitValue(c) ==
    CASE c = "0" -> 0 [] c = "1" -> 1 [] c = "2" -> 2 [] c = "3" -> 3
      [] c = "4" -> 4 [] c = "5" -> 5 [] c = "6" -> 6 [] c = "7" -> 7
      [] c = "8" -> 8 [] c = "9" -> 9

RECURSIVE DigitsValue(_)
\* the number a sequence of decimal digits denotes
DigitsValue(ds) ==
    IF Len(ds) = 0
    THEN 0
    ELSE DigitsValue(SubSeq(ds, 1, Len(ds) - 1)) * 10 + DigitValue(ds[Len(ds)])

\* str::parse::<usize>: an optional "+", then one or more decimal digits.
\* (The texts here have few digits, so the value always fits a usize.)
parse_usize(s) ==
    LET ds == IF Len(s) > 0 /\ s[1] = "+" THEN Tail(s) ELSE s
    IN  IF Len(ds) = 0 \/ \E i \in 1..Len(ds) : ds[i] \notin Digits
        THEN Err("invalid digit found in string")
        ELSE Ok(DigitsValue(ds))

RECURSIVE non_blank(_)
\* the filter_map of both parsers: every piece trimmed, the empty ones
\* dropped
non_blank(parts_) ==
    IF Len(parts_) = 0
    THEN <<>>
    ELSE LET line == trim(Head(parts_))
         IN  (IF Len(line) = 0 THEN <<>> ELSE <<line>>) \o non_blank(Tail(parts_))

\* struct CallCtx
CallCtx(file, line, function) == [file |-> file, line |-> line, function |-> function]

\* parse_bash_or_zsh_stack_trace, the body of the loop for one line: three
\* fields between colons, the second an unsigned number
parse_bash_line(line) ==
    LET parts == str_split(line, ":")
    IN  IF Len(parts) # 3
        THEN Err("failed to parse stack trace")
        ELSE IF ~parse_usize(parts[2]).ok
             THEN Err("failed to parse line number as usize")
             ELSE Ok(CallCtx(parts[1], parse_usize(parts[2]).val, parts[3]))

\* variant of the loops that leaves out an item that fails and goes on
push_or_skip(first, rest) ==
    IF ~first.ok
    THEN rest
    ELSE IF ~rest.ok THEN rest ELSE Ok(<<first.val>> \o rest.val)

\* the loops of both parsers: the first item that fails ends the parse with
\* its error (bail!, ?), otherwise the frame is pushed and the loop goes on
push_or_fail(first, rest) ==
    IF ~first.ok
    THEN first
    ELSE IF ~rest.ok THEN rest ELSE Ok(<<first.val>> \o rest.val)

RECURSIVE parse_bash_lines(_)
\* parse_bash_or_zsh_stack_trace, the loop over the non-blank lines
parse_bash_lines(lines) ==
    IF Len(lines) = 0
    THEN Ok(<<>>)
    ELSE push_or_fail(parse_bash_line(Head(lines)), parse_bash_lines(Tail(lines)))

RECURSIVE drop_empty(_)
\* a filter that drops the empty pieces only
drop_empty(parts_) ==
    IF Len(parts_) = 0
    THEN <<>>
    ELSE (IF Len(Head(parts_)) = 0 THEN <<>> ELSE <<Head(parts_)>>)
             \o drop_empty(Tail(parts_))

\* variant of parse_bash_or_zsh_stack_trace that does not trim the lines
parse_bash_or_zsh_untrimmed(input) ==
    parse_bash_lines(drop_empty(str_split(input, "\n")))

\* parse_bash_or_zsh_stack_trace
parse_bash_or_zsh_stack_trace(input) ==
    parse_bash_lines(non_blank(str_split(input, "\n")))

\* std::env::current_dir of the process
Cwd == <<"/", "w">>

RECURSIVE push_components(_, _)
\* PathBuf::extend with the components of a path: empty and "." components
\* are dropped by Path::components
push_components(base, comps) ==
    IF Len(comps) = 0
    THEN base
    ELSE IF Head(comps) = <<>> \/ Head(comps) = <<".">>
         THEN push_components(base, Tail(comps))
         ELSE push_components(base \o <<"/">> \o Head(comps), Tail(comps))

\* std::path::absolute: an empty path is an error, an absolute path is
\* normalised, a relative one is put under the current directory.  (Paths
\* that begin with exactly two slashes or end in a slash do not occur in
\* the texts here.)
path_absolute(path) ==
    IF Len(path) = 0
    THEN Err("cannot make an empty path absolute")
    ELSE LET base == IF path[1] = "/" THEN <<>> ELSE Cwd
             joined == push_components(base, str_split(path, "/"))
         IN  Ok(IF Len(joined) = 0 THEN <<"/">> ELSE joined)

\* variant of the body of the fish loop that counts the tokens of the
\* call site from one
parse_fish_chunk_off_by_one(chunk) ==
    IF Len(chunk) # 2
    THEN Err("uneven number of lines in fish stack trace")
    ELSE LET function == nth(str_split(chunk[1], "'"), 1)
             line_token == nth(str_split(chunk[2], " "), 4)
             file_token == nth(str_split(chunk[2], " "), 7)
         IN  IF ~IsSome(function)
             THEN Err("failed to extract function name")
             ELSE IF ~IsSome(line_token)
             THEN Err("failed to extract line number")
             ELSE IF ~parse_usize(Unwrap(line_token)).ok
             THEN Err("failed to parse line number")
             ELSE IF ~IsSome(file_token)
             THEN Err("failed to extract file path")
             ELSE IF ~path_absolute(Unwrap(file_token)).ok
             THEN Err("failed to get absolute path of file")
             ELSE Ok(CallCtx(path_absolute(Unwrap(file_token)).val,
                             parse_usize(Unwrap(line_token)).val,
                             Unwrap(function)))

\* parse_fish_stack_trace, the body of the loop for one chunk: a chunk of
\* one line is an error; the function is the second piece of the first line
\* split on quotes, the line number and the file the tokens 3 and 6 of the
\* second line split on spaces
parse_fish_chunk(chunk) ==
    IF Len(chunk) # 2
    THEN Err("uneven number of lines in fish stack trace")
    ELSE LET function == nth(str_split(chunk[1], "'"), 1)
             line_token == nth(str_split(chunk[2], " "), 3)
             file_token == nth(str_split(chunk[2], " "), 6)
         IN  IF ~IsSome(function)
             THEN Err("failed to extract function name")
             ELSE IF ~IsSome(line_token)
             THEN Err("failed to extract line number")
             ELSE IF ~parse_usize(Unwrap(line_token)).ok
             THEN Err("failed to parse line number")
             ELSE IF ~IsSome(file_token)
             THEN Err("failed to extract file path")
             ELSE IF ~path_absolute(Unwrap(file_token)).ok
             THEN Err("failed to get absolute path of file")
             ELSE Ok(CallCtx(path_absolute(Unwrap(file_token)).val,
                             parse_usize(Unwrap(line_token)).val,
                             Unwrap(function)))

RECURSIVE parse_fish_chunks(_)
\* parse_fish_stack_trace, the loop over lines.chunks(2)
parse_fish_chunks(lines) ==
    IF Len(lines) = 0
    THEN Ok(<<>>)
    ELSE push_or_fail(parse_fish_chunk(SubSeq(lines, 1, Min(2, Len(lines)))),
                      parse_fish_chunks(SubSeq(lines, 3, Len(lines))))

\* variant of parse_fish_stack_trace in the manner of chunks_exact: a last
\* line without a partner is left out
parse_fish_stack_trace_exact(input) ==
    LET lines == non_blank(str_split(input, ";"))
    IN  parse_fish_chunks(SubSeq(lines, 1, Len(lines) - (Len(lines) % 2)))

\* parse_fish_stack_trace
parse_fish_stack_trace(input) ==
    parse_fish_chunks(non_blank(str_split(input, ";")))

\* load_call_stack, the choice of the parser by the shell
parse_stack_trace(input, shell) ==
    CASE shell = "Bash" -> parse_bash_or_zsh_stack_trace(input)
      [] shell = "Zsh" -> parse_bash_or_zsh_stack_trace(input)
      [] shell = "Fish" -> parse_fish_stack_trace(input)

(***************************************************************************)
(* load_call_stack (app/trace.rs).  The call-stack text is written from    *)
(* pieces joined by the separator of the grammar; each piece states what   *)
(* it is meant to be, so that the parser's result can be compared with     *)
(* what was written.  pc is "parse" before the parser ran, "read" in the   *)
(* loop that reads the source files, "loaded" after Ok(CallStack) and      *)
(* "failed" after Err.                                                     *)
(***************************************************************************)
\* lines of a bash/zsh trace: two frames (the second with blanks around
\* it), a blank line, and lines with two fields, with four fields, with a
\* line field that is no number and with a negative line field
BashPieces ==
    {[text |-> <<"f", ":", "1", ":", "g">>,
     kind |-> "frame", file |-> <<"f">>, line |-> 1, function |-> <<"g">>],
     [text |-> <<" ", "b", ":", "2", "0", ":", "h", "\t">>,
     kind |-> "frame", file |-> <<"b">>, line |-> 20, function |-> <<"h">>],
     [text |-> <<" ", " ">>,
     kind |-> "blank", file |-> <<>>, line |-> 0, function |-> <<>>],
     [text |-> <<"f", ":", "1">>,
     kind |-> "bad", file |-> <<>>, line |-> 0, function |-> <<>>],
     [text |-> <<"f", ":", "1", ":", "g", ":", "h">>,
     kind |-> "bad", file |-> <<>>, line |-> 0, function |-> <<>>],
     [text |-> <<"f", ":", "x", ":", "g">>,
     kind |-> "bad", file |-> <<>>, line |-> 0, function |-> <<>>],
     [text |-> <<"f", ":", "-", "1", ":", "g">>,
     kind |-> "bad", file |-> <<>>, line |-> 0, function |-> <<>>]}

\* segments of a fish trace: a declaration, two call sites (the first
\* indented, with a relative path), a blank segment, a declaration whose
\* quote is not closed, and a call site whose line token is no number
FishPieces ==
    {[text |-> <<"i", "n", " ", "f", "u", "n", "c", "t", "i", "o", "n", " ", "'", "f", "'">>,
     kind |-> "decl", file |-> <<>>, line |-> 0, function |-> <<"f">>],
     [text |-> <<" ", " ", " ", " ", " ", " ", " ", " ", "c", "a", "l", "l", "e", "d", " ", "o", "n", " ", "l", "i", "n", "e", " ", "8", " ", "o", "f", " ", "f", "i", "l", "e", " ", ".", "/", "x">>,
     kind |-> "callsite", file |-> <<"/", "w", "/", "x">>, line |-> 8, function |-> <<>>],
     [text |-> <<"c", "a", "l", "l", "e", "d", " ", "o", "n", " ", "l", "i", "n", "e", " ", "1", "9", " ", "o", "f", " ", "f", "i", "l", "e", " ", "/", "y">>,
     kind |-> "callsite", file |-> <<"/", "y">>, line |-> 19, function |-> <<>>],
     [text |-> <<" ">>,
     kind |-> "blank", file |-> <<>>, line |-> 0, function |-> <<>>],
     [text |-> <<"i", "n", " ", "f", "u", "n", "c", "t", "i", "o", "n", " ", "'", "f">>,
     kind |-> "unclosed", file |-> <<>>, line |-> 0, function |-> <<"f">>],
     [text |-> <<"c", "a", "l", "l", "e", "d", " ", "o", "n", " ", "l", "i", "n", "e", " ", "x", " ", "o", "f", " ", "f", "i", "l", "e", " ", ".", "/", "x">>,
     kind |-> "bad", file |-> <<>>, line |-> 0, function |-> <<>>]}

\* the separator of the pieces: a newline for bash and zsh, ';' for fish
Separator(shell) == IF shell = "Fish" THEN ";" ELSE "\n"

RECURSIVE JoinPieces(_, _)
\* the text written from the pieces ps, the separator sep between them
JoinPieces(ps, sep) ==
    IF Len(ps) = 0
    THEN <<>>
    ELSE IF Len(ps) = 1
         THEN ps[1].text
         ELSE ps[1].text \o <<sep>> \o JoinPieces(Tail(ps), sep)

\* the call-stack texts tried for a shell, as the pieces they are written
\* from
TracePieces(shell) ==
    UNION {[1..n -> IF shell = "Fish" THEN FishPieces ELSE BashPieces] : n \in 0..MaxPieces}

\* std::fs::read_to_string of a source file: an error, or the file's text
FileTexts == {<<>>, <<"a", "\n", "b">>}
ReadResults == {Err("read failed")} \cup {Ok(text) : text \in FileTexts}

\* struct CallFrame
CallFrame(ctx, lines) == [ctx |-> ctx, lines |-> lines]

\* variant of the loop body of load_call_stack that stores no lines for a
\* file that cannot be read
load_frame_empty_on_error(call, read) ==
    CallFrame(call, IF read.ok THEN Some(str_split(read.val, "\n")) ELSE Some(<<>>))

\* load_call_stack, the body of the loop over the call sites: the lines of
\* the file, or None when it cannot be read
load_frame(call, read) ==
    CallFrame(call, IF read.ok THEN Some(str_split(read.val, "\n")) ELSE None)

\* the other parts of the program are not running
UiIdle ==
    /\ snapshot = <<>>
    /\ env = App_new(<<>>, "Bash", "").env
    /\ screen = App_new(<<>>, "Bash", "").screen
    /\ exit_state = App_new(<<>>, "Bash", "").exit_state
    /\ output = App_new(<<>>, "Bash", "").output
    /\ last_event = None
    /\ fresh = TRUE

\* load_call_stack is entered with a call-stack text and a shell
InitLoad ==
    /\ \E shell \in Shells :
          \E ps \in TracePieces(shell) :
             /\ load_shell = Some(shell)
             /\ pieces = ps
             /\ load_input = Some(JoinPieces(ps, Separator(shell)))
    /\ callsites = None
    /\ frames = <<>>
    /\ reads = <<>>
    /\ pc = "parse"
    /\ UiIdle
    /\ TraceIdle
    /\ TermUp

\* the parser chosen by the shell runs; its error is the error of
\* load_call_stack
ParseTrace ==
    /\ pc = "parse"
    /\ callsites' = Some(parse_stack_trace(Unwrap(load_input), Unwrap(load_shell)))
    /\ pc' = IF Unwrap(callsites').ok THEN "read" ELSE "failed"
    /\ UNCHANGED <<load_shell, load_input, pieces, frames, reads>>
    /\ UNCHANGED <<screen, exit_state, env, output, snapshot, last_event, fresh>>
    /\ UNCHANGED <<trace_vars, term>>

\* one turn of the loop over the call sites: the file of the next call site
\* is read, with whatever result, and its frame pushed
ReadSource ==
    /\ pc = "read"
    /\ Len(frames) < Len(Unwrap(callsites).val)
    /\ \E read \in ReadResults :
          /\ frames' = Append(frames, load_frame(Unwrap(callsites).val[Len(frames) + 1], read))
          /\ reads' = Append(reads, read)
    /\ UNCHANGED <<load_shell, load_input, pieces, callsites, pc>>
    /\ UNCHANGED <<screen, exit_state, env, output, snapshot, last_event, fresh>>
    /\ UNCHANGED <<trace_vars, term>>

\* the loop is over: Ok(CallStack { frames })
ReturnCallStack ==
    /\ pc = "read"
    /\ Len(frames) = Len(Unwrap(callsites).val)
    /\ pc' = "loaded"
    /\ UNCHANGED load_vars
    /\ UNCHANGED <<screen, exit_state, env, output, snapshot, last_event, fresh>>
    /\ UNCHANGED <<trace_vars, term>>

NextLoad == ParseTrace \/ ReadSource \/ ReturnCallStack

SpecLoad == InitLoad /\ [][NextLoad]_vars

(***************************************************************************)
(* main (main.rs).  pc is "main" when main is entered with the parsed      *)
(* arguments and "aborted" when it returned an error before run_app;       *)
(* load_shell and load_input hold --shell and --call-stack.                *)
(***************************************************************************)
\* the --call-stack argument: absent, or a text of at most one piece
MainCallStacks(shell) ==
    {None} \cup {Some(JoinPieces(ps, Separator(shell))) :
                    ps \in {qs \in TracePieces(shell) : Len(qs) <= 1}}

\* main is entered; the variables of the App hold what App::new will
\* build (an empty environment, no tracepoint marker)
InitMain ==
    /\ \E shell \in Shells :
          /\ load_shell = Some(shell)
          /\ load_input \in MainCallStacks(shell)
          /\ snapshot = <<>>
          /\ env = App_new(<<>>, shell, "").env
          /\ screen = App_new(<<>>, shell, "").screen
          /\ exit_state = App_new(<<>>, shell, "").exit_state
          /\ output = App_new(<<>>, shell, "").output
    /\ pieces = <<>>
    /\ callsites = None
    /\ frames = <<>>
    /\ reads = <<>>
    /\ last_event = None
    /\ fresh = TRUE
    /\ TraceIdle
    /\ term = TermInitial
    /\ pc = "main"

\* enable_raw_mode, the alternate screen or Terminal::new fails: main
\* returns the error
MainSetupFails ==
    /\ pc = "main"
    /\ pc' = "aborted"
    /\ \/ term' = [term EXCEPT !.result = Some("failed to enable raw mode")]
       \/ term' = [term EXCEPT !.raw_mode = TRUE,
                               !.result = Some("failed to enter alternate screen mode")]
       \/ term' = [term EXCEPT !.raw_mode = TRUE, !.alternate_screen = TRUE,
                               !.result = Some("failed to get terminal")]
    /\ UNCHANGED <<screen, exit_state, env, output, snapshot, last_event, fresh>>
    /\ UNCHANGED <<load_vars, trace_vars>>

\* the terminal is set up, App::new builds the App from the shell and the
\* environment (it does not look at args.call_stack) and run_app is entered
MainRunsApp ==
    /\ pc = "main"
    /\ pc' = "draw"
    /\ term' = [term EXCEPT !.raw_mode = TRUE, !.alternate_screen = TRUE]
    /\ UNCHANGED <<screen, exit_state, env, output, snapshot, last_event, fresh>>
    /\ UNCHANGED <<load_vars, trace_vars>>

\* what main leaves alone after run_app returned
MainFrame ==
    /\ UNCHANGED <<screen, exit_state, env, output, snapshot, last_event, fresh>>
    /\ UNCHANGED <<load_vars, trace_vars>>

\* run_app: terminal.draw or event::read fails, the `?` returns the error
\* out of the loop
RunAppFails ==
    /\ pc \in {"draw", "read"}
    /\ pc' = "error"
    /\ UNCHANGED term
    /\ MainFrame

\* variant of MainTakesResult in the manner of `run_app(..)?`: an error of
\* the loop is returned to the caller at once
MainTakesResultOrReturns ==
    /\ pc \in {"done", "error"}
    /\ IF pc = "done"
       THEN /\ term' = [term EXCEPT !.res = Some("Ok")]
            /\ pc' = "disable_raw_mode"
       ELSE /\ term' = [term EXCEPT !.res = Some("Err"),
                          !.result = Some("debugger encountered an error")]
            /\ pc' = "returned"
    /\ MainFrame

\* let res = run_app(&mut app, &mut terminal): the loop returned Ok or Err
\* and main goes on to the teardown
MainTakesResult ==
    /\ pc \in {"done", "error"}
    /\ term' = [term EXCEPT !.res = Some(IF pc = "done" THEN "Ok" ELSE "Err")]
    /\ pc' = "disable_raw_mode"
    /\ MainFrame

\* disable_raw_mode().context(..)?
MainDisableRawMode ==
    /\ pc = "disable_raw_mode"
    /\ \/ /\ term' = [term EXCEPT !.raw_mode = FALSE]
          /\ pc' = "leave_alternate_screen"
       \/ /\ term' = [term EXCEPT !.result = Some("failed to disable raw mode")]
          /\ pc' = "returned"
    /\ MainFrame

\* execute!(.., LeaveAlternateScreen, DisableMouseCapture).context(..)?
MainLeaveAlternateScreen ==
    /\ pc = "leave_alternate_screen"
    /\ \/ /\ term' = [term EXCEPT !.alternate_screen = FALSE]
          /\ pc' = "show_cursor"
       \/ /\ term' = [term EXCEPT
                        !.result = Some("failed to leave alternate screen mode")]
          /\ pc' = "returned"
    /\ MainFrame

\* terminal.show_cursor().context(..)?
MainShowCursor ==
    /\ pc = "show_cursor"
    /\ \/ /\ term' = [term EXCEPT !.cursor_shown = TRUE]
          /\ pc' = "report"
       \/ /\ term' = [term EXCEPT !.result = Some("failed to restore cursor")]
          /\ pc' = "returned"
    /\ MainFrame

\* match res.as_ref(): Ok prints the output (App::print_output writes it to
\* standard output, or fails), an error is returned with its context
MainReport ==
    /\ pc = "report"
    /\ IF term.res = Some("Ok")
       THEN \/ term' = [term EXCEPT !.stdout = Some(output), !.result = Some("Ok")]
            \/ term' = [term EXCEPT !.result = Some("failed to print commands")]
       ELSE term' = [term EXCEPT !.result = Some("debugger encountered an error")]
    /\ pc' = "returned"
    /\ MainFrame

NextMain ==
    \/ MainSetupFails
    \/ MainRunsApp
    \/ Next
    \/ RunAppFails
    \/ MainTakesResult
    \/ MainDisableRawMode
    \/ MainLeaveAlternateScreen
    \/ MainShowCursor
    \/ MainReport

SpecMain == InitMain /\ [][NextMain]_vars

(***************************************************************************)
(* The Trace screen: TraceState, handle_trace_event, render_trace_screen.  *)
(***************************************************************************)
\* the lines of a source file of n lines; a line is named by its 0-based index
SourceLines(n) == [i \in 1..n |-> i - 1]

\* the frames of a loaded call stack: the call line is any number up to
\* MaxRows, the file was not read or has up to 2 * MaxRows lines
TraceFrames ==
    {CallFrame(CallCtx(<<"/", "f">>, l, <<"g">>), ls) :
        l \in 0..MaxRows,
        ls \in {None} \cup {Some(SourceLines(n)) : n \in 1..(2 * MaxRows)}}

\* the frames below the first one: a file that was not read, a long file
CallerFrames ==
    {CallFrame(CallCtx(<<"/", "c">>, 1, <<"h">>), ls) :
        ls \in {None, Some(SourceLines(2 * MaxRows))}}

\* struct CallStack
CallStack(fs) == [frames |-> fs]

\* the call stacks load_call_stack returns: no frame, one frame, two frames
TraceCallStacks ==
    {CallStack(<<>>)}
      \cup {CallStack(<<f>>) : f \in TraceFrames}
      \cup {CallStack(<<f, c>>) : f \in TraceFrames, c \in CallerFrames}

\* variant of TraceState::new that always builds the list state
TraceState_new_with_cursor(tracepoint, call_stack) ==
    [tracepoint |-> tracepoint,
     call_stack |-> call_stack,
     list_state |-> Some(select_first(ListStateDefault))]

\* TraceState::new
TraceState_new(tracepoint, call_stack) ==
    [tracepoint |-> tracepoint,
     call_stack |-> call_stack,
     list_state |-> IF IsSome(call_stack)
                    THEN Some(select_first(ListStateDefault)) ELSE None]

\* handle_trace_event: the outcomes of one event.  With no frame `len - 1`
\* overflows: a build with overflow checks panics, one without wraps to the
\* largest usize and moves the selection
handle_trace_event(tr, event) ==
    IF ~IsSome(tr.list_state) THEN {[trace |-> tr, panicked |-> FALSE]}
    ELSE LET len == Len(tr.call_stack[1].frames)
             st == tr.list_state[1]
             same == [trace |-> tr, panicked |-> FALSE]
             moved(to) == [trace |-> [tr EXCEPT !.list_state = Some(to)],
                           panicked |-> FALSE]
         IN  CASE event = NavEv("Up") ->
                    IF IsSome(st.selected) /\ st.selected[1] > 0
                    THEN {moved(select_previous(st))}
                    ELSE {same}
               [] event = NavEv("Down") ->
                    IF ~IsSome(st.selected) THEN {same}
                    ELSE IF len = 0
                         THEN {[trace |-> tr, panicked |-> TRUE],
                               moved(select_next(st))}
                         ELSE IF st.selected[1] < len - 1
                              THEN {moved(select_next(st))}
                              ELSE {same}
               [] OTHER -> {same}

\* v[a..b] of a vector: None where the range is out of bounds (a panic)
slice(v, a, b) ==
    IF a <= b /\ b <= Len(v) THEN Some(SubSeq(v, a + 1, b)) ELSE None

\* variant of the source window whose call-line row is the middle row itself
source_window_middle(frame_lines, line_number, visible) ==
    IF line_number < visible \div 2
    THEN [lines |-> IF IsSome(frame_lines)
                    THEN slice(frame_lines[1], 0, visible) ELSE None,
          call_line |-> line_number]
    ELSE LET offset == line_number - visible \div 2
         IN  [lines |-> IF IsSome(frame_lines)
                        THEN slice(frame_lines[1], offset, offset + visible)
                        ELSE None,
              call_line |-> visible \div 2]

\* render_trace_screen, the window of the source view: the lines shown and
\* the row of the call line.  lines is None where unwrapping the frame's
\* lines or slicing them panics
source_window(frame_lines, line_number, visible) ==
    IF line_number < visible \div 2
    THEN [lines |-> IF IsSome(frame_lines)
                    THEN slice(frame_lines[1], 0, visible) ELSE None,
          call_line |-> line_number]
    ELSE LET offset == line_number - visible \div 2
         IN  [lines |-> IF IsSome(frame_lines)
                        THEN slice(frame_lines[1], offset, offset + visible)
                        ELSE None,
              call_line |-> visible \div 2 + 1]

\* what a draw leaves in the call-stack area
View(kind, idx, lines, call_line) ==
    [kind |-> kind, idx |-> idx, lines |-> lines, call_line |-> call_line]

\* render_trace_screen: the message for a missing call stack, else the list
\* of frames, the call-site information and the source view of the selected
\* frame.  view is None where the function panics
render_trace_screen(tr, visible) ==
    IF ~IsSome(tr.call_stack) THEN Some(View("no_call_stack", 0, <<>>, 0))
    ELSE LET fs == tr.call_stack[1].frames
             st == tr.list_state[1]
         IN  IF ~IsSome(st.selected) \/ st.selected[1] >= Len(fs) THEN None
             ELSE LET idx == st.selected[1]
                      stack_frame == fs[idx + 1]
                      w == source_window(stack_frame.lines,
                                         stack_frame.ctx.line, visible)
                  IN  IF IsSome(w.lines)
                      THEN Some(View("source", idx, w.lines[1], w.call_line))
                      ELSE None

\* the Trace screen is up with the state TraceState::new builds from the
\* arguments; the terminal gives the source view up to MaxRows rows
InitTrace ==
    /\ \E tp \in {None, Some("all")} :
         \E cs \in {None} \cup {Some(c) : c \in TraceCallStacks} :
            trace = Some(TraceState_new(tp, cs))
    /\ visible_lines \in 0..MaxRows
    /\ rendered = None
    /\ snapshot = <<>>
    /\ env = App_new(<<>>, "Bash", "").env
    /\ screen = "Trace"
    /\ exit_state = App_new(<<>>, "Bash", "").exit_state
    /\ output = App_new(<<>>, "Bash", "").output
    /\ last_event = None
    /\ fresh = TRUE
    /\ LoadIdle
    /\ TermUp
    /\ pc = "draw"

\* run_app: terminal.draw on the Trace screen
TraceDraw ==
    /\ pc = "draw"
    /\ LET view == render_trace_screen(trace[1], visible_lines)
       IN  /\ rendered' = view
           /\ pc' = IF IsSome(view) THEN "read" ELSE "panic"
    /\ fresh' = FALSE
    /\ UNCHANGED <<trace, visible_lines>>
    /\ UNCHANGED <<screen, exit_state, env, output, snapshot, last_event>>
    /\ UNCHANGED <<load_vars, term>>

\* run_app: a key that resolves to a navigation event on the Trace screen
TraceKey ==
    /\ pc = "read"
    /\ \E event \in NavEvents :
         \E out \in handle_trace_event(trace[1], event) :
            /\ trace' = Some(out.trace)
            /\ pc' = IF out.panicked THEN "panic" ELSE "draw"
            /\ last_event' = Some(event)
    /\ UNCHANGED <<visible_lines, rendered>>
    /\ UNCHANGED <<screen, exit_state, env, output, snapshot, fresh>>
    /\ UNCHANGED <<load_vars, term>>

\* run_app: the terminal is resized, the next frame is laid out anew
TraceResize ==
    /\ pc = "read"
    /\ \E v \in 0..MaxRows : v # visible_lines /\ visible_lines' = v
    /\ pc' = "draw"
    /\ UNCHANGED <<trace, rendered>>
    /\ UNCHANGED <<screen, exit_state, env, output, snapshot, last_event, fresh>>
    /\ UNCHANGED <<load_vars, term>>

NextTrace == TraceDraw \/ TraceKey \/ TraceResize

SpecTrace == InitTrace /\ [][NextTrace]_vars

\* run_app of src/src/app/mod.rs is entered while a TraceState built from a
\* loaded call stack exists.  The App of that file has no field for it: the
\* TraceState is held beside the App, and the steps of run_app leave it alone
InitWithTrace ==
    /\ \E cs \in TraceCallStacks : trace = Some(TraceState_new(None, Some(cs)))
    /\ visible_lines = 0
    /\ rendered = None
    /\ UiIdle
    /\ LoadIdle
    /\ TermUp
    /\ pc = "draw"

SpecWithTrace == InitWithTrace /\ [][Next]_vars



(***************************************************************************)
(* Properties.                                                             *)
(***************************************************************************)
Modal == exit_state.kind = "PresentModal"

\* the step handles event e: some key press resolved to it
Handled(e) == \E key \in Keys : Resolve(key) = Some(e) /\ KeyPress(key)

\* the keys of the screen-specific binding set of screen scr
ScreenKeys(kb, scr) ==
    CASE scr = "Vars" ->
           {kb.vars.next_var, kb.vars.previous_var, kb.vars.focus_var_list,
            kb.vars.focus_var_detail, kb.vars.raw_detail, kb.vars.split_detail}
      [] scr = "Trace" -> {kb.trace.next_frame, kb.trace.previous_frame}
      [] OTHER -> {}

\* C1: while the exit modal is presented, on every screen the resolver binds
\* exactly Left -> Nav(Left), Right -> Nav(Right), Enter -> Nav(Select); every
\* other key (the quit key, the tab key, every screen key) resolves to nothing.
C1_ModalBindsOnlyNavigation ==
    Modal =>
      \A scr \in Screens :
        LET keymap == current_keymap(KeyBindingsDefault, scr, exit_state)
        IN  \A key \in Keys :
              Get(keymap, key) =
                CASE key = KeyEvent("Left", "NONE") -> Some(NavEv("Left"))
                  [] key = KeyEvent("Right", "NONE") -> Some(NavEv("Right"))
                  [] key = KeyEvent("Enter", "NONE") -> Some(NavEv("Select"))
                  [] OTHER -> None

\* a key press was read while the modal was up and resolved to no event
C1_Witness == Modal /\ last_event = None /\ screen = "Vars"

\* C2: while the exit modal is showing, no event of any kind (App, Nav or
\* Vars) changes the screen or the Env: every event goes to the modal
\* sub-machine alone, and App(NextTab) in particular leaves the screen alone.
C2_ModalExclusive ==
    Modal =>
      \A e \in Events :
        LET out == handle_event(App, e)
        IN  /\ out.app.screen = screen
            /\ out.app.env = env
            /\ ~out.panicked
            /\ out = handle_exit_state(App, e)

\* Nav(Left) was handled by the modal on the Vars screen with the detail pane
\* focused: the per-screen handler would have focused the name list
C2_Witness ==
    /\ Modal
    /\ screen = "Vars"
    /\ last_event = Some(NavEv("Left"))
    /\ ~env.var_list_focused

\* C3: the loop stops only immediately after Nav(Select) is handled while the
\* exit state is PresentModal with Ok highlighted.
C3_LoopEndsOnlyByModalOk ==
    [][(pc \notin {"done", "panic"} /\ pc' \in {"done", "panic"})
         => (exit_state = PresentModal("Ok") /\ Handled(NavEv("Select")))]_vars

\* C4: handling App(ExitRequested) in NotExiting presents the modal with
\* Cancel highlighted, on every screen and whatever happened before.
C4_ExitRequestedHighlightsCancel ==
    [][(exit_state = NotExiting /\ Handled(AppEv("ExitRequested")))
         => (exit_state' = PresentModal("Cancel") /\ pc' = "draw")]_vars

\* the quit key opened the modal on the Output screen
C4_Witness ==
    /\ exit_state = PresentModal("Cancel")
    /\ last_event = Some(AppEv("ExitRequested"))
    /\ screen = "Output"

\* C5: Nav(Select) in the modal always resets the exit state to NotExiting and
\* ends the loop exactly when Ok was highlighted; with Cancel the loop goes on.
C5_SelectResetsAndExitsIffOk ==
    [][(Modal /\ Handled(NavEv("Select")))
         => /\ exit_state' = NotExiting
            /\ (pc' = "done") = (exit_state.highlighted_option = "Ok")
            /\ (exit_state.highlighted_option = "Cancel" => pc' = "draw")]_vars

\* the loop ended by Select on Ok, the exit state reset
C5_Witness ==
    /\ pc = "done"
    /\ exit_state = NotExiting
    /\ last_event = Some(NavEv("Select"))

\* C6: in the modal Nav(Left) and Nav(Right) each flip the highlighted option,
\* whatever the direction; any two of them in succession restore it, and the
\* modal stays open.
C6_LeftRightToggle ==
    Modal =>
      \A e1 \in {NavEv("Left"), NavEv("Right")}, e2 \in {NavEv("Left"), NavEv("Right")} :
        LET o1 == handle_event(App, e1)
            o2 == handle_event(o1.app, e2)
            other == IF exit_state.highlighted_option = "Ok" THEN "Cancel" ELSE "Ok"
        IN  /\ o1.app = [App EXCEPT !.exit_state = PresentModal(other)]
            /\ ~o1.should_exit /\ ~o1.panicked
            /\ o2.app = App
            /\ ~o2.should_exit /\ ~o2.panicked

\* the highlight is back on Cancel after Right was handled in the modal
C6_Witness ==
    /\ exit_state = PresentModal("Cancel")
    /\ last_event = Some(NavEv("Right"))

\* C7: in the modal Nav(Up) and Nav(Down) change nothing and do not exit.
C7_UpDownIgnoredInModal ==
    Modal =>
      \A e \in {NavEv("Up"), NavEv("Down")} :
        handle_event(App, e) = Outcome(App, FALSE, FALSE)

\* the modal is up with Ok highlighted on the Trace screen, whose Up and Down
\* keys were pressed last and resolved to nothing
C7_Witness ==
    /\ exit_state = PresentModal("Ok")
    /\ screen = "Trace"
    /\ last_event = None

RECURSIVE NextTabTimes(_, _)
\* App::next_tab applied n times
NextTabTimes(app, n) == IF n = 0 THEN app ELSE NextTabTimes(App_next_tab(app), n - 1)

\* C8: NextTab is the cyclic successor Home -> Prompt -> Vars -> Trace ->
\* Output -> Home: a permutation of the screens, of order exactly five.
C8_NextTabCycle ==
    /\ App_next_tab(App).screen =
         CASE screen = "Home" -> "Prompt"
           [] screen = "Prompt" -> "Vars"
           [] screen = "Vars" -> "Trace"
           [] screen = "Trace" -> "Output"
           [] screen = "Output" -> "Home"
    /\ {next_tab(s) : s \in Screens} = Screens
    /\ NextTabTimes(App, 5) = App
    /\ \A n \in 1..4 : NextTabTimes(App, n).screen # screen

\* the tab key brought the application round to Home again
C8_Witness ==
    /\ screen = "Home"
    /\ last_event = Some(AppEv("NextTab"))
    /\ exit_state = NotExiting

\* C9: the application starts on the Home screen with no modal showing.
C9_StartsHomeNotExiting ==
    fresh => (screen = "Home" /\ exit_state = NotExiting)

\* the loop has drawn the first frame and waits for the first key
C9_Witness == fresh /\ pc = "read" /\ Len(env.vars) = MaxVars

\* C10: with no modal showing, on each screen the quit key resolves to
\* App(ExitRequested) and the tab key to App(NextTab), and no screen-specific
\* binding uses the key of a global binding.
C10_GlobalBindingsDoNotCollide ==
    exit_state = NotExiting =>
      \A scr \in Screens :
        LET kb == KeyBindingsDefault
            keymap == current_keymap(kb, scr, exit_state)
        IN  /\ Get(keymap, kb.global.exit) = Some(AppEv("ExitRequested"))
            /\ Get(keymap, kb.global.next_tab) = Some(AppEv("NextTab"))
            /\ kb.global.exit # kb.global.next_tab
            /\ ScreenKeys(kb, scr) \cap {kb.global.exit, kb.global.next_tab} = {}

\* the quit key opened the modal from the Vars screen, after a screen key
\* of that screen had switched the detail view
C10_Witness ==
    /\ screen = "Vars"
    /\ exit_state = PresentModal("Cancel")
    /\ last_event = Some(AppEv("ExitRequested"))
    /\ env.detail_state.kind = "Split"

\* C11: a key press that the active keymap does not bind produces no event:
\* the screen, the exit state, the Env (cursors, focused pane, detail mode)
\* and the output are left unchanged and the loop continues with the next
\* frame.
C11_UnboundKeyIgnored ==
    [][\A key \in Keys :
         (KeyPress(key) /\ Resolve(key) = None) =>
            /\ UNCHANGED <<screen, exit_state, env, output>>
            /\ pc' = "draw"]_vars

\* an unbound key was pressed on the Vars screen while the detail pane was
\* focused on the second segment of a split value
C11_Witness ==
    /\ last_event = None
    /\ ~fresh
    /\ pc = "draw"
    /\ screen = "Vars"
    /\ exit_state = NotExiting
    /\ ~env.var_list_focused
    /\ env.detail_state.kind = "Split"
    /\ env.detail_state.list_state.selected = Some(1)

----------------------------------------------------------------------------
\* Help text.  A text is the sequence of its parts; an arrow key is shown
\* as one glyph.

\* display_key_combo: the modifiers, then the key, joined by "+"
display_key_combo(key) ==
    LET shift == IF key.modifiers = "SHIFT" THEN <<"Shift", "+">> ELSE <<>>
        control == IF key.modifiers = "CONTROL" THEN <<"Ctrl", "+">> ELSE <<>>
        glyph == CASE key.code = "Enter" -> "Enter"
                   [] key.code = "Left" -> "ArrowLeft"
                   [] key.code = "Right" -> "ArrowRight"
                   [] key.code = "Up" -> "ArrowUp"
                   [] key.code = "Down" -> "ArrowDown"
                   [] key.code = "Tab" -> "Tab"
                   [] key.code = "Esc" -> "Esc"
                   [] key.code = "q" -> "Q"
                   [] key.code = "r" -> "R"
                   [] key.code = "s" -> "S"
    IN  shift \o control \o <<glyph>>

\* one (keys, description) pair of the help text
HelpPair(keys, desc) == [keys |-> keys, desc |-> desc]

\* GlobalKeyBindings::displayable
GlobalKeyBindings_displayable(global) ==
    <<HelpPair(display_key_combo(global.exit), "Exit"),
      HelpPair(display_key_combo(global.next_tab), "Next Tab")>>

\* VarsKeyBindings::displayable: the four arrows under one description
VarsKeyBindings_displayable ==
    <<HelpPair(<<"ArrowUp", "ArrowDown", "ArrowLeft", "ArrowRight">>, "Nav")>>

\* TraceKeyBindings::displayable
TraceKeyBindings_displayable ==
    <<HelpPair(<<"ArrowUp", "ArrowDown">>, "Nav")>>

\* displayable of HomeKeyBindings, PromptKeyBindings and OutputKeyBindings
NoKeyBindings_displayable == <<>>

\* render_footer: the global pairs, then those of the current screen; the
\* exit state is not consulted
render_footer(app) ==
    LET screen_bindings ==
            CASE app.screen = "Home" -> NoKeyBindings_displayable
              [] app.screen = "Prompt" -> NoKeyBindings_displayable
              [] app.screen = "Vars" -> VarsKeyBindings_displayable
              [] app.screen = "Trace" -> TraceKeyBindings_displayable
              [] app.screen = "Output" -> NoKeyBindings_displayable
    IN  GlobalKeyBindings_displayable(KeyBindingsDefault.global) \o screen_bindings

\* draw_ui: the help text of the drawn frame.  render_exit_modal clears the
\* whole frame, the footer included, before it draws the popup.
draw_ui_help(app) ==
    IF is_displaying_exit_modal(app) THEN <<>> ELSE render_footer(app)

ArrowGlyphs == {"ArrowUp", "ArrowDown", "ArrowLeft", "ArrowRight"}

\* the help text help shows the key: a pair's keys are the key's
\* combination, or a run of arrows that holds the key's glyph
Displays(help, key) ==
    LET combo == display_key_combo(key)
    IN  \E i \in 1..Len(help) :
           \/ help[i].keys = combo
           \/ /\ Len(combo) = 1
              /\ combo[1] \in ArrowGlyphs
              /\ \A j \in 1..Len(help[i].keys) : help[i].keys[j] \in ArrowGlyphs
              /\ \E j \in 1..Len(help[i].keys) : help[i].keys[j] = combo[1]

\* C12: the help text shows exactly the active bindings: a key is displayed
\* if and only if current_keymap binds it for the current screen and exit
\* state.
C12_HelpShowsExactlyActiveBindings ==
    \A key \in Keys : Displays(draw_ui_help(App), key) <=> IsSome(Resolve(key))

\* the cursor ls is set and is an index of a list of len items
ValidCursor(ls, len) ==
    IsSome(ls.selected) /\ Unwrap(ls.selected) \in 0..(len - 1)

\* C13: the cursor of a non-empty list is always a valid index.  With the
\* name list focused, Up and Down move its cursor by exactly one and stop
\* at the first and the last variable, without wrapping; with the detail
\* pane focused in Split mode the same holds for the cursor of the split
\* items.  Nothing else in the Env changes.
C13_CursorsClamped ==
    LET e == env
        up == handle_vars_event(App, NavEv("Up")).app.env
        down == handle_vars_event(App, NavEv("Down")).app.env
    IN  /\ Len(e.vars) > 0 => ValidCursor(e.var_list_state, Len(e.vars))
        /\ (e.var_list_focused /\ Len(e.vars) > 0) =>
              LET idx == Unwrap(e.var_list_state.selected)
              IN  /\ up = [e EXCEPT !.var_list_state.selected = Some(Max(idx - 1, 0))]
                  /\ down = [e EXCEPT !.var_list_state.selected =
                                         Some(Min(idx + 1, Len(e.vars) - 1))]
        /\ (e.detail_state.kind = "Split" /\ Len(e.detail_state.items) > 0) =>
              ValidCursor(e.detail_state.list_state, Len(e.detail_state.items))
        /\ (~e.var_list_focused /\ e.detail_state.kind = "Split"
               /\ Len(e.detail_state.items) > 0) =>
              LET idx == Unwrap(e.detail_state.list_state.selected)
              IN  /\ up = [e EXCEPT !.detail_state.list_state.selected =
                                       Some(Max(idx - 1, 0))]
                  /\ down = [e EXCEPT !.detail_state.list_state.selected =
                                         Some(Min(idx + 1, Len(e.detail_state.items) - 1))]

\* Down has moved the cursor of the name list to the last of several
\* variables
C13_Witness ==
    /\ screen = "Vars"
    /\ exit_state = NotExiting
    /\ last_event = Some(NavEv("Down"))
    /\ env.var_list_focused
    /\ Len(env.vars) > 1
    /\ env.var_list_state.selected = Some(Len(env.vars) - 1)

\* C14: every event the resolver produces is handled without failure in
\* every reachable state, the empty variable list included: no handler
\* panics.
C14_NoHandlerPanics == pc # "panic"

\* C15: the queries for the selected variable name, its raw value and the
\* selected split segment never fail: in every reachable state a cursor
\* that is set is within the bounds of the list it indexes, and the queries
\* return None when the list is empty or no cursor is set and the indexed
\* element otherwise.
C15_QueriesNeverFail ==
    LET e == env
        cursor == e.var_list_state.selected
    IN  /\ IsSome(cursor) =>
              /\ Unwrap(cursor) \in 0..(Len(e.vars) - 1)
              /\ Unwrap(cursor) \in 0..(Len(e.values) - 1)
        /\ (e.detail_state.kind = "Split" /\ IsSome(e.detail_state.list_state.selected)) =>
              Unwrap(e.detail_state.list_state.selected)
                  \in 0..(Len(e.detail_state.items) - 1)
        /\ IF Len(e.vars) = 0 \/ ~IsSome(cursor)
           THEN selected_var(e) = None /\ selected_var_value(e) = None
           ELSE /\ selected_var(e) = Some(e.vars[Unwrap(cursor) + 1])
                /\ selected_var_value(e) = Some(e.values[Unwrap(cursor) + 1])
        /\ IF e.detail_state.kind = "Raw"
           THEN selected_detail_item(e) = None
           ELSE IF Len(e.detail_state.items) = 0
                   \/ ~IsSome(e.detail_state.list_state.selected)
                THEN selected_detail_item(e) = None
                ELSE \E i \in 1..Len(e.detail_state.items) :
                        selected_detail_item(e) = Some(e.detail_state.items[i])

\* the second variable is selected and the cursor of the detail pane is on
\* the second, empty, segment of a split value
C15_Witness ==
    /\ screen = "Vars"
    /\ env.var_list_state.selected = Some(1)
    /\ env.detail_state.kind = "Split"
    /\ env.detail_state.list_state.selected = Some(1)
    /\ selected_detail_item(env) = Some(<<>>)
    /\ last_event = Some(NavEv("Down"))

RECURSIVE JoinPaths(_)
\* the segments of items put together again with the separator between them
JoinPaths(items) ==
    IF Len(items) = 1
    THEN items[1]
    ELSE items[1] \o <<PATH_SEPARATOR>> \o JoinPaths(Tail(items))

\* items are the segments of value, in order: no segment holds the
\* separator and the segments joined by it give the value back
IsSplitOf(items, value) ==
    /\ Len(items) > 0
    /\ \A i \in 1..Len(items) : \A j \in 1..Len(items[i]) : items[i][j] # PATH_SEPARATOR
    /\ JoinPaths(items) = value

\* C16: handling SplitDetail while a variable is selected puts the detail
\* view in Split mode, in Raw mode and in Split mode alike: the items are
\* the selected variable's value split on the path separator, in order,
\* with a fresh cursor on the first segment (none if there is no segment);
\* nothing else in the application changes.
C16_SplitDetailSplitsSelectedValue ==
    [][(Handled(VarsEv("SplitDetail")) /\ IsSome(env.var_list_state.selected)) =>
          /\ env'.detail_state.kind = "Split"
          /\ IsSplitOf(env'.detail_state.items, Unwrap(selected_var_value(env)))
          /\ env'.detail_state.list_state.selected =
                IF Len(env'.detail_state.items) > 0 THEN Some(0) ELSE None
          /\ env' = [env EXCEPT !.detail_state = env'.detail_state]
          /\ UNCHANGED <<screen, exit_state, output>>
          /\ pc' = "draw"]_vars

\* SplitDetail was handled for the second variable, whose value has two
\* segments
C16_Witness ==
    /\ screen = "Vars"
    /\ last_event = Some(VarsEv("SplitDetail"))
    /\ pc = "draw"
    /\ env.var_list_state.selected = Some(1)
    /\ env.detail_state.kind = "Split"
    /\ Len(env.detail_state.items) = 2
    /\ env.detail_state.list_state.selected = Some(0)

\* C17: handling RawDetail puts the detail view in Raw mode and discards
\* the items and the cursor of the split view; the cursor of the name list,
\* the focused pane and everything else stay as they were.  Hence from
\* Split mode with the cursor on any segment, RawDetail followed by
\* SplitDetail gives Split mode with the cursor on the first segment.
C17_RawDetailDiscardsSplit ==
    (screen = "Vars" /\ exit_state = NotExiting) =>
       LET raw == handle_event(App, VarsEv("RawDetail"))
           again == handle_event(raw.app, VarsEv("SplitDetail"))
       IN  /\ raw = Outcome([App EXCEPT !.env.detail_state = Raw], FALSE, FALSE)
           /\ DOMAIN raw.app.env.detail_state = {"kind"}
           /\ IsSome(env.var_list_state.selected) =>
                 /\ ~again.panicked
                 /\ again.app.env.detail_state.kind = "Split"
                 /\ again.app.env.detail_state.list_state.selected = Some(0)
                 /\ again.app.env.var_list_state = env.var_list_state
                 /\ again.app.env.var_list_focused = env.var_list_focused

\* RawDetail was handled while the detail pane was focused and the second
\* variable selected
C17_Witness ==
    /\ screen = "Vars"
    /\ exit_state = NotExiting
    /\ last_event = Some(VarsEv("RawDetail"))
    /\ env.detail_state = Raw
    /\ ~env.var_list_focused
    /\ env.var_list_state.selected = Some(1)

\* C18: Nav(Left) always focuses the name list and Nav(Right) always
\* focuses the detail pane, whichever pane had the focus; handling either
\* twice is the same as handling it once, and nothing but the focus flag
\* changes.
C18_LeftRightSetFocus ==
    (screen = "Vars" /\ exit_state = NotExiting) =>
       LET left == handle_event(App, NavEv("Left"))
           right == handle_event(App, NavEv("Right"))
       IN  /\ left = Outcome([App EXCEPT !.env.var_list_focused = TRUE], FALSE, FALSE)
           /\ right = Outcome([App EXCEPT !.env.var_list_focused = FALSE], FALSE, FALSE)
           /\ handle_event(left.app, NavEv("Left")) = left
           /\ handle_event(right.app, NavEv("Right")) = right

\* Left was handled and the name list has the focus, with the cursor of
\* the split items left where the detail pane had put it
C18_Witness ==
    /\ screen = "Vars"
    /\ exit_state = NotExiting
    /\ last_event = Some(NavEv("Left"))
    /\ env.var_list_focused
    /\ env.detail_state.kind = "Split"
    /\ env.detail_state.list_state.selected = Some(1)

\* C19: the name list and the value list are index-aligned in every
\* reachable state, for either constructor: they have the same length, hold
\* each variable of the environment once, and the value at an index is the
\* environment's value for the name at that index.  The environment is
\* read once, so no event changes either list.
C19_NamesValuesAligned ==
    /\ Len(env.vars) = Len(env.values)
    /\ Len(env.vars) = Cardinality(DOMAIN snapshot)
    /\ {env.vars[i] : i \in 1..Len(env.vars)} = DOMAIN snapshot
    /\ \A i \in 1..Len(env.vars) : env.values[i] = snapshot[env.vars[i]]

\* an Env built by with_env in descending order of the names, after the
\* cursors were moved and the value under the cursor was split
C19_Witness ==
    /\ Len(env.vars) = 2
    /\ env.vars[1] > env.vars[2]
    /\ env.values[1] # env.values[2]
    /\ env.var_list_state.selected = Some(1)
    /\ env.detail_state.kind = "Split"
    /\ last_event = Some(VarsEv("SplitDetail"))

\* C20: the name list is sorted in ascending order of the names, for every
\* way of constructing an Env (Env::new and Env::with_env).
C20_NamesSorted ==
    \A i, j \in 1..Len(env.vars) : i < j => env.vars[i] < env.vars[j]

----------------------------------------------------------------------------
\* Call-stack parsing and loading, under SpecLoad.

\* the parser has run
Parsed == IsSome(callsites)

\* the pieces that are not blank, in order
NonBlankPieces == SelectSeq(pieces, LAMBDA p : p.kind # "blank")

\* the shell selects the bash/zsh grammar, or the fish grammar
BashLike == IsSome(load_shell) /\ Unwrap(load_shell) \in {"Bash", "Zsh"}
FishLike == IsSome(load_shell) /\ Unwrap(load_shell) = "Fish"

\* the frames written in a bash/zsh text all of whose lines are frames or
\* blank
WrittenBashFrames ==
    [i \in 1..Len(NonBlankPieces) |->
        CallCtx(NonBlankPieces[i].file, NonBlankPieces[i].line, NonBlankPieces[i].function)]

\* C21: for a well-formed bash/zsh trace the parser returns exactly one
\* CallCtx per non-blank line, in input order, with the file, the line and
\* the function that were written in the line's three fields; blank lines
\* give no frame.
C21_BashOneFramePerLine ==
    (Parsed /\ BashLike /\ \A i \in 1..Len(pieces) : pieces[i].kind \in {"frame", "blank"}) =>
        Unwrap(callsites) = Ok(WrittenBashFrames)

\* a zsh trace of two frames with a blank line between them was parsed,
\* the frame of line 20 first
C21_Witness ==
    /\ Parsed
    /\ load_shell = Some("Zsh")
    /\ Len(pieces) = 3
    /\ pieces[1].kind = "frame" /\ pieces[2].kind = "blank" /\ pieces[3].kind = "frame"
    /\ Unwrap(callsites).ok
    /\ Len(Unwrap(callsites).val) = 2
    /\ Unwrap(callsites).val[1].line = 20
    /\ Unwrap(callsites).val[2].line = 1

\* C22: the bash/zsh parser is fail-fast: when some non-blank line has not
\* exactly three fields, or a line field that is no non-negative integer,
\* the parse returns an error and load_call_stack no frames, also when the
\* lines before it were well-formed.
C22_BashFailFast ==
    (Parsed /\ BashLike /\ \E i \in 1..Len(pieces) : pieces[i].kind = "bad") =>
        /\ ~Unwrap(callsites).ok
        /\ pc = "failed"
        /\ frames = <<>>

\* a bash trace whose third line is malformed, after two well-formed
\* frames, was rejected
C22_Witness ==
    /\ pc = "failed"
    /\ load_shell = Some("Bash")
    /\ Len(pieces) = 3
    /\ pieces[1].kind = "frame" /\ pieces[2].kind = "frame" /\ pieces[3].kind = "bad"

\* the non-blank segments are declarations and call sites in turn
FishWellFormed ==
    \A i \in 1..Len(NonBlankPieces) :
        NonBlankPieces[i].kind = (IF i % 2 = 1 THEN "decl" ELSE "callsite")

\* the frames written in a well-formed fish text with an even number of
\* non-blank segments
WrittenFishFrames ==
    [k \in 1..(Len(NonBlankPieces) \div 2) |->
        CallCtx(NonBlankPieces[2 * k].file, NonBlankPieces[2 * k].line,
                NonBlankPieces[2 * k - 1].function)]

\* C23: for a well-formed fish trace the parser splits on ';', discards
\* the blank segments and returns exactly one CallCtx per consecutive pair
\* of declaration and call site, in input order; with an odd number of
\* non-blank segments the parse returns an error and no frames.
C23_FishOneFramePerPair ==
    (Parsed /\ FishLike /\ FishWellFormed) =>
        IF Len(NonBlankPieces) % 2 = 0
        THEN Unwrap(callsites) = Ok(WrittenFishFrames)
        ELSE /\ ~Unwrap(callsites).ok
             /\ pc = "failed"
             /\ frames = <<>>

\* a fish trace of two pairs was parsed, the call site of line 19 first
C23_Witness ==
    /\ Parsed
    /\ FishLike
    /\ FishWellFormed
    /\ Len(pieces) = 4
    /\ Unwrap(callsites).ok
    /\ Len(Unwrap(callsites).val) = 2
    /\ Unwrap(callsites).val[1].line = 19
    /\ Unwrap(callsites).val[2].line = 8

\* the number of single-quote characters of a text
QuoteCount(text) == Cardinality({i \in 1..Len(text) : text[i] = "'"})

\* C24: in the fish parser the function name is the text between the first
\* and the second single-quote character of the declaration segment, and a
\* declaration segment with fewer than two single-quote characters makes
\* the whole parse fail.
C24_FishFunctionBetweenQuotes ==
    (Parsed /\ FishLike) =>
        /\ (FishWellFormed /\ Len(NonBlankPieces) % 2 = 0) =>
              /\ Unwrap(callsites).ok
              /\ \A k \in 1..(Len(NonBlankPieces) \div 2) :
                    Unwrap(callsites).val[k].function = NonBlankPieces[2 * k - 1].function
        /\ (\E i \in 1..Len(NonBlankPieces) :
               i % 2 = 1 /\ QuoteCount(trim(NonBlankPieces[i].text)) < 2) =>
              ~Unwrap(callsites).ok

\* C25: in the fish parser the trimmed call-site segment is split on single
\* spaces, the line number is token 3 and the file token 6, made absolute;
\* when the segment in the place of a call site lacks either token, or its
\* line token is no unsigned integer, the parse returns an error and no
\* frames.
C25_FishCallSiteTokens ==
    (Parsed /\ FishLike) =>
        /\ (FishWellFormed /\ Len(NonBlankPieces) % 2 = 0) =>
              /\ Unwrap(callsites).ok
              /\ \A k \in 1..(Len(NonBlankPieces) \div 2) :
                    /\ Unwrap(callsites).val[k].line = NonBlankPieces[2 * k].line
                    /\ Unwrap(callsites).val[k].file = NonBlankPieces[2 * k].file
        /\ (\E i \in 1..Len(NonBlankPieces) :
               i % 2 = 0 /\ NonBlankPieces[i].kind # "callsite") =>
              /\ ~Unwrap(callsites).ok
              /\ pc = "failed"
              /\ frames = <<>>

\* the indented call site with the relative path was parsed: line 8 of the
\* file under the current directory
C25_Witness ==
    /\ Parsed
    /\ FishLike
    /\ Len(pieces) = 2
    /\ pieces[2].text[1] = " "
    /\ Unwrap(callsites) = Ok(<<CallCtx(Cwd \o <<"/", "x">>, 8, <<"f">>)>>)

\* C26: loading never fails because of a source file: once the parse has
\* succeeded load_call_stack returns a CallStack with one frame per
\* CallCtx, in the same order; the lines of a frame are None exactly when
\* reading its file failed, and the lines of the file otherwise, whatever
\* happened to the other frames.
C26_LoadNeverFails ==
    (Parsed /\ Unwrap(callsites).ok) =>
        /\ pc \in {"read", "loaded"}
        /\ Len(frames) = Len(reads)
        /\ Len(frames) <= Len(Unwrap(callsites).val)
        /\ pc = "loaded" => Len(frames) = Len(Unwrap(callsites).val)
        /\ \A i \in 1..Len(frames) :
              /\ frames[i].ctx = Unwrap(callsites).val[i]
              /\ frames[i].lines = None <=> ~reads[i].ok
              /\ reads[i].ok => frames[i].lines = Some(str_split(reads[i].val, "\n"))

\* a call stack of three frames was returned; the file of the second frame
\* could not be read, the files of the first and the third could
C26_Witness ==
    /\ pc = "loaded"
    /\ Len(frames) = 3
    /\ frames[1].lines = Some(<<<<"a">>, <<"b">>>>)
    /\ frames[2].lines = None
    /\ frames[3].lines = Some(<<<<>>>>)

\* the --call-stack text is malformed under the grammar --shell selects
MalformedCallStack ==
    /\ IsSome(load_input)
    /\ ~parse_stack_trace(Unwrap(load_input), Unwrap(load_shell)).ok

\* C27: when the --call-stack text is malformed under the grammar selected
\* by --shell, the program aborts before the interactive loop starts: no
\* frame is drawn and no key is read.
C27_MalformedCallStackAborts ==
    MalformedCallStack => pc \in {"main", "aborted"}

\* a frame of the call stack is selected in the list of the Trace screen
HasSelectedFrame ==
    /\ IsSome(trace)
    /\ IsSome(trace[1].call_stack)
    /\ IsSome(trace[1].list_state[1].selected)
    /\ trace[1].list_state[1].selected[1] < Len(trace[1].call_stack[1].frames)

\* the selected frame (where HasSelectedFrame)
SelectedFrame ==
    trace[1].call_stack[1].frames[trace[1].list_state[1].selected[1] + 1]

\* the last draw put the source view of a frame on the screen
SourceShown ==
    /\ pc = "read"
    /\ IsSome(rendered)
    /\ rendered[1].kind = "source"

\* the 0-based index of the first line claimed to be shown for call line l in
\* a view of v rows
FirstShown(l, v) == IF l < v \div 2 THEN 0 ELSE l - v \div 2

\* the row claimed to carry the call line
CallRow(l, v) == IF l < v \div 2 THEN l ELSE v \div 2 + 1

\* C28: with call line L and a source view of V rows over a file that has the
\* lines asked for, the view shows lines [0, V) and marks row L when
\* L < V div 2, and otherwise shows lines [offset, offset + V) with
\* offset = L - V div 2 (never negative) and marks row V div 2 + 1; so L = 3,
\* V = 10 shows [0, 10) with row 3 and L = 40, V = 10 shows [35, 45) with row 6.
C28_SourceWindow ==
    /\ HasSelectedFrame /\ IsSome(SelectedFrame.lines) =>
         LET l == SelectedFrame.ctx.line
             v == visible_lines
             first == FirstShown(l, v)
             file == SelectedFrame.lines[1]
             view == render_trace_screen(trace[1], v)
         IN  /\ first >= 0
             /\ first + v <= Len(file) =>
                  /\ IsSome(view)
                  /\ view[1].lines = [k \in 1..v |-> file[first + k]]
                  /\ view[1].call_line = CallRow(l, v)
             /\ SourceShown =>
                  /\ rendered[1].lines = [k \in 1..v |-> file[first + k]]
                  /\ rendered[1].call_line = CallRow(l, v)
    /\ source_window(Some(SourceLines(50)), 3, 10) =
         [lines |-> Some([k \in 1..10 |-> k - 1]), call_line |-> 3]
    /\ source_window(Some(SourceLines(50)), 40, 10) =
         [lines |-> Some([k \in 1..10 |-> 34 + k]), call_line |-> 6]

\* the call line 4 of a long file was drawn in a view of 4 rows: the lines
\* 2..5 are on the screen and the call line is marked on row 3
C28_Witness ==
    /\ SourceShown
    /\ HasSelectedFrame
    /\ SelectedFrame.ctx.line = 4
    /\ visible_lines = 4
    /\ rendered[1].lines = <<2, 3, 4, 5>>
    /\ rendered[1].call_line = 3

\* C29: for every call line L, view height V and file length N, also with
\* N < V and N < offset + V, computing the window of a frame whose lines were
\* read succeeds and yields only lines of the file.
C29_WindowClampsToContent ==
    HasSelectedFrame /\ IsSome(SelectedFrame.lines) =>
      LET view == render_trace_screen(trace[1], visible_lines)
      IN  /\ IsSome(view)
          /\ \A k \in 1..Len(view[1].lines) :
               \E n \in 1..Len(SelectedFrame.lines[1]) :
                  view[1].lines[k] = SelectedFrame.lines[1][n]

\* C30: a selected frame whose source file could not be read does not end the
\* program: drawing it goes on to the next read of the event loop.
C30_UnreadableFrameNonFatal ==
    HasSelectedFrame /\ SelectedFrame.lines = None => pc # "panic"

\* C31: for a selected frame with call line L >= 1 in a view of V >= 1 rows
\* over a file long enough for the window, the window shows the call-site
\* line (element L - 1 of the file's lines) and the highlighted row (0-based
\* among the rows of the window) is the row that shows it.
C31_WindowHighlightsCallSite ==
    HasSelectedFrame /\ IsSome(SelectedFrame.lines) =>
      LET l == SelectedFrame.ctx.line
          v == visible_lines
          file == SelectedFrame.lines[1]
          view == render_trace_screen(trace[1], v)
      IN  l >= 1 /\ v >= 1 /\ l <= Len(file) /\ FirstShown(l, v) + v <= Len(file) =>
            /\ IsSome(view)
            /\ view[1].call_line < Len(view[1].lines)
            /\ view[1].lines[view[1].call_line + 1] = file[l]

\* the frame cursor of the Trace screen (where a call stack is present)
FrameCursor(tr) == tr[1].list_state[1].selected

\* C32: with no modal showing and the Trace screen active, handling Nav(Down)
\* selects the next frame unless the cursor is on the last frame, handling
\* Nav(Up) selects the previous frame unless it is on the first; the cursor
\* does not wrap and nothing else changes.
C32_TraceKeysMoveFrameCursor ==
    [][(~Modal /\ screen = "Trace" /\ HasSelectedFrame) =>
         LET idx == FrameCursor(trace)[1]
             len == Len(trace[1].call_stack[1].frames)
         IN  /\ Handled(NavEv("Down")) =>
                  /\ FrameCursor(trace') =
                       Some(IF idx < len - 1 THEN idx + 1 ELSE idx)
                  /\ UNCHANGED <<screen, exit_state, env, output>>
             /\ Handled(NavEv("Up")) =>
                  /\ FrameCursor(trace') = Some(IF idx > 0 THEN idx - 1 ELSE idx)
                  /\ UNCHANGED <<screen, exit_state, env, output>>]_vars

\* C33: the cleanup output prepared at startup is empty when the tracepoint
\* marker is unset, empty or "all"; for any other value it is the one line
\* "unset FLOX_DBG_TRACEPOINT\n" for Bash and Zsh and
\* "set -e FLOX_DBG_TRACEPOINT\n" for Fish.  Before any key press the output
\* of the App is one of these texts.
C33_StartupCleanupOutput ==
    /\ \A shell \in Shells, marker \in TracepointMarkers :
         initial_output(shell, marker) =
           IF marker \in {None, Some(""), Some("all")} THEN ""
           ELSE IF shell = "Fish" THEN "set -e FLOX_DBG_TRACEPOINT\n"
                ELSE "unset FLOX_DBG_TRACEPOINT\n"
    /\ fresh => output \in {initial_output(shell, marker) :
                              shell \in Shells, marker \in TracepointMarkers}
    /\ fresh => output \in {"", "unset FLOX_DBG_TRACEPOINT\n",
                            "set -e FLOX_DBG_TRACEPOINT\n"}

\* the App was started for Fish with a tracepoint set: the first frame is
\* drawn and the output holds the Fish command
C33_Witness ==
    /\ fresh
    /\ pc = "read"
    /\ output = "set -e FLOX_DBG_TRACEPOINT\n"

\* the teardown of main is complete
TornDown == ~term.raw_mode /\ ~term.alternate_screen /\ term.cursor_shown

\* C34: the teardown (raw mode off, alternate screen left, cursor restored)
\* follows the return of the loop, with Ok and with an error alike; it is
\* complete before a shell command is written to standard output and before
\* an error of the loop or of the output is reported to the caller; nothing
\* is written to standard output while the UI is up.
C34_TeardownBeforeOutput ==
    /\ IsSome(term.stdout) => TornDown /\ term.res = Some("Ok")
    /\ term.raw_mode \/ term.alternate_screen => term.stdout = None
    /\ term.result \in {Some("debugger encountered an error"),
                        Some("failed to print commands")} => TornDown
    /\ pc = "report" => TornDown /\ term.res \in {Some("Ok"), Some("Err")}
    /\ IsSome(term.res) /\ term.raw_mode => pc \in {"disable_raw_mode", "returned"}
    /\ IsSome(term.res) /\ term.raw_mode /\ pc = "returned" =>
         term.result = Some("failed to disable raw mode")

\* the loop returned an error, the terminal was restored and then the error
\* was reported
C34_Witness ==
    /\ pc = "returned"
    /\ term.res = Some("Err")
    /\ TornDown
    /\ term.result = Some("debugger encountered an error")

C36_CursorIffCallStack ==
    IsSome(trace) =>
      /\ IsSome(trace[1].list_state) <=> IsSome(trace[1].call_stack)
      /\ fresh /\ IsSome(trace[1].list_state) => FrameCursor(trace) = Some(0)

\* a call stack of two frames after the cursor was moved to the second frame
\* and the frame was drawn
C36_Witness ==
    /\ pc = "read"
    /\ HasSelectedFrame
    /\ IsSome(trace[1].list_state)
    /\ FrameCursor(trace) = Some(1)
    /\ last_event = Some(NavEv("Down"))

\* C37: on the Vars screen with no modal, the name list focused and the
\* detail mode Split, handling Nav(Up) or Nav(Down) leaves the Split items
\* and the Split cursor as they are (they are those of the last SplitDetail,
\* whatever variable the cursor is on now).
C37_SplitIsSnapshot ==
    [][(~Modal /\ screen = "Vars" /\ env.var_list_focused
          /\ env.detail_state.kind = "Split"
          /\ (Handled(NavEv("Up")) \/ Handled(NavEv("Down"))))
         => env'.detail_state = env.detail_state]_vars

\* the variable cursor was moved in Split mode to a variable whose value
\* splits differently: the Split items shown are not those of the selected
\* variable
C37_Witness ==
    /\ pc = "read"
    /\ ~Modal
    /\ screen = "Vars"
    /\ env.var_list_focused
    /\ env.detail_state.kind = "Split"
    /\ last_event \in {Some(NavEv("Up")), Some(NavEv("Down"))}
    /\ Some(env.detail_state.items) # selected_var_split_value(env)

\* C38: with no modal showing, handling App(NextTab) changes the active screen
\* and nothing else: the Env (variable cursor, focused pane, detail mode,
\* Split items and Split cursor), the exit state and the output are as
\* before, so the state of the Vars screen is still there after one to five
\* NextTab events.
C38_NextTabChangesOnlyScreen ==
    [][(~Modal /\ Handled(AppEv("NextTab"))) =>
         /\ screen' # screen
         /\ env' = env
         /\ exit_state' = exit_state
         /\ output' = output
         /\ \A n \in 1..5 :
              LET app == NextTabTimes(App, n)
              IN  app.env = env /\ app.exit_state = exit_state /\ app.output = output
      ]_vars

\* the Vars screen was left and entered again by the tab key: the detail
\* pane is still focused and still in Split mode
C38_Witness ==
    /\ screen = "Vars"
    /\ ~Modal
    /\ last_event = Some(AppEv("NextTab"))
    /\ ~env.var_list_focused
    /\ env.detail_state.kind = "Split"

\* C39: whenever a call stack is present, with zero frames too, the frame
\* cursor is an index of one of its frames, and handling Nav(Up) or Nav(Down)
\* neither fails nor takes the cursor out of the frames.
C39_FrameCursorValid ==
    IsSome(trace) /\ IsSome(trace[1].call_stack) =>
      LET len == Len(trace[1].call_stack[1].frames)
      IN  /\ IsSome(FrameCursor(trace))
          /\ FrameCursor(trace)[1] < len
          /\ \A event \in {NavEv("Up"), NavEv("Down")} :
               \A out \in handle_trace_event(trace[1], event) :
                  /\ ~out.panicked
                  /\ out.trace.list_state[1].selected[1] < len

\* run_app, the body of the loop for the key press key on the App app: the
\* key is looked up in the key map of app's screen and exit state and the
\* event found, if any, is handled
press(app, key) ==
    LET found == Get(current_keymap(KeyBindingsDefault, app.screen, app.exit_state), key)
    IN  IF IsSome(found) THEN handle_event(app, Unwrap(found))
        ELSE Outcome(app, FALSE, FALSE)

\* the keys named by the exit sequences
QuitKey == KeyBindingsDefault.global.exit
RightKey == KeyEvent("Right", "NONE")
LeftKey == KeyEvent("Left", "NONE")
EnterKey == KeyEvent("Enter", "NONE")

====
